---- MODULE Spec2Model ----
(***************************************************************************)
(* Model of imgal's weighted merge sort / inversion counter                *)
(* (crates/imgal/src/statistics/sort.rs) and of the weighted Kendall Tau-b *)
(* correlation built on it (imgal/src/statistics/kendall_tau.rs).          *)
(*                                                                         *)
(* Slices are sequences; the code's 0-based index i is At(s, i).           *)
(* Weights are drawn from small integers, on which every f64 sum and       *)
(* product of the code is exact; the final quotient numer / sqrt(x) is     *)
(* kept as an exact real in the canonical form num / (den * sqrt(rad)).    *)
(***************************************************************************)
EXTENDS Integers, Sequences, FiniteSets, Bags, TLC

\* weighted_merge_sort_mut: the caller's slices, the locals, the result, and
\* the slices as they were at the call; pass_log is what the last pass did:
\* its final k, the destination indices it wrote in order, and the indices
\* at which it accessed each slice
VARIABLES pc, data, weights, data_buf, weights_buf, cum_weights_buf,
          step, data_in_buffer, swap, ret, arg_data, arg_weights, pass_log

\* weighted_kendall_tau_b: the arguments, the locals and the result
VARIABLES data_a, data_b, tau_weights, a_ranks, b_ranks, a_tie_corr, b_tie_corr,
          b_sorted, w_sorted, swaps, total_w_pairs, numer, denom, tau_ret

sort_vars == <<data, weights, data_buf, weights_buf, cum_weights_buf,
               step, data_in_buffer, swap, ret, arg_data, arg_weights, pass_log>>

tau_locals == <<a_ranks, b_ranks, a_tie_corr, b_tie_corr, b_sorted, w_sorted,
                swaps, total_w_pairs, numer, denom>>

tau_vars == <<data_a, data_b, tau_weights, tau_locals, tau_ret>>

\* saca_2d / saca_3d behind their binding: the arguments, the partition of
\* the pixels over the workers, each worker's position in its share, the
\* output field, the writers of every output cell in order, and the result
VARIABLES saca_fn, saca_a, saca_b, saca_ta, saca_tb, saca_parallel,
          saca_owner, saca_next, saca_out, saca_log, saca_ret

saca_args == <<saca_fn, saca_a, saca_b, saca_ta, saca_tb, saca_parallel>>

saca_vars == <<saca_args, saca_owner, saca_next, saca_out, saca_log, saca_ret>>

\* saca_significance_mask behind its binding: the arguments, the mask, the
\* cells written so far and the result
VARIABLES mask_data, mask_alpha, mask_parallel, mask_out, mask_written, mask_ret

mask_args == <<mask_data, mask_alpha, mask_parallel>>

mask_vars == <<mask_args, mask_out, mask_written, mask_ret>>

\* pearson_roi_coloc: the arguments, the labels still to visit, the
\* coefficients collected so far and the result
VARIABLES roi_a, roi_b, roi_rois, roi_parallel, roi_todo, roi_acc, roi_ret

roi_args == <<roi_a, roi_b, roi_rois, roi_parallel>>

roi_vars == <<roi_args, roi_todo, roi_acc, roi_ret>>

\* div_tile followed by div_untile: the array and the divisor, the tile
\* stack and the result of div_tile, the arguments of div_untile, the array
\* it assembles, its loop counter and its result
VARIABLES tile_data, tile_div, tile_stack, tile_ret,
          untile_stack, untile_div, untile_shape, untile_arr, untile_t, untile_ret

tile_args == <<tile_data, tile_div>>

untile_args == <<untile_stack, untile_div, untile_shape>>

tile_vars == <<tile_args, tile_stack, tile_ret, untile_args, untile_arr, untile_t, untile_ret>>

\* min_max: the arguments, the chunks the array is split into, the
\* accumulator of each chunk, the next element of each chunk, the chunks
\* whose result is not yet combined into another, and the result
VARIABLES mm_data, mm_parallel, mm_chunks, mm_accs, mm_next, mm_live, mm_ret

mm_args == <<mm_data, mm_parallel>>

mm_vars == <<mm_args, mm_chunks, mm_accs, mm_next, mm_live, mm_ret>>

\* a caller of weighted_kendall_tau_b that repeats its call with one more
\* observation of weight 0: the arguments of the current call, its result,
\* and the arguments and the result of the call before
VARIABLES zw_a, zw_b, zw_w, zw_ret, zw_base

zw_vars == <<zw_a, zw_b, zw_w, zw_ret, zw_base>>

\* KDTree: the point cloud the tree views, the node vector, the root, and the
\* arguments and the result (as point indices) of the last search
VARIABLES kd_cloud, kd_nodes, kd_root, kd_query, kd_radius, kd_results

kd_tree == <<kd_cloud, kd_nodes, kd_root>>

kd_vars == <<kd_tree, kd_query, kd_radius, kd_results>>

\* the variables of the operations other than the sort and the correlation
ext_vars == <<saca_vars, mask_vars, roi_vars, tile_vars, mm_vars, zw_vars, kd_vars>>

vars == <<pc, sort_vars, tau_vars, ext_vars>>

\* ------------------------------------------------------------------ bounds
MaxLen == 5
MaxObs == 3
MaxWorkers == 2

\* the values and the weights the callers draw their slices from
Values == {0, 1, 2}
SortWeights == {1, 2}
Observations == {1, 2, 3}
TauWeights == {0, 1, 2}
SignedWeights == {-1, 0, 2}
HeavyWeights == {0, 1, 7}

SeqsUpTo(S, n) == UNION {[1..m -> S] : m \in 0..n}

\* ------------------------------------------------------------- slice access
At(s, i) == s[i + 1]
Put(s, i, v) == [s EXCEPT ![i + 1] = v]
Filled(n, v) == [i \in 1..n |-> v]

\* ------------------------------------------------- sort.rs: one merge pass
\* cum_weights_buf built from the current source (lines 70-80)
RECURSIVE CumWeights(_, _, _)
CumWeights(weights_from, cw, i) ==
    IF i >= Len(weights_from) THEN cw
    ELSE CumWeights(weights_from,
                    Put(cw, i, (IF i = 0 THEN 0 ELSE At(cw, i - 1)) + At(weights_from, i)),
                    i + 1)

\* Greater that also takes the right element on Some(Ordering::Equal)
GreaterOrEqual(x, y) == x >= y

\* the comparison of line 94: TRUE for Some(Ordering::Greater)
Greater(x, y) == x > y

\* SwapTemp with the weight of the left element alone
SwapTempOneLeft(weights_from, cw, l, r, right) ==
    At(weights_from, r) * At(weights_from, l)

\* swap_temp of lines 96-101
SwapTemp(weights_from, cw, l, r, right) ==
    IF l = 0 THEN At(weights_from, r) * At(cw, right - 1)
    ELSE At(weights_from, r) * (At(cw, right - 1) - At(cw, l - 1))

\* SwapReads without the test of line 96
SwapReadsUnguarded(l, right) == {right - 1, l - 1}

\* lines 96-101: the indices at which cum_weights_buf is read
SwapReads(l, right) == IF l = 0 THEN {right - 1} ELSE {right - 1, l - 1}

\* lines 97-100: the accesses of swap_temp
SwapAccesses(l, r, right) ==
    {<<"weights_from", r>>} \cup {<<"cum_weights_buf", i>> : i \in SwapReads(l, right)}

\* line 94: the accesses of the comparison
CompareAccesses(l, r) == {<<"data_from", l>>, <<"data_from", r>>}

\* lines 103-104, 109-110, 118-119, 125-126, 137-138: the accesses of the
\* copy of element i of the source to element k of the destination
CopyAccesses(i, k) ==
    {<<"data_from", i>>, <<"weights_from", i>>, <<"data_to", k>>, <<"weights_to", k>>}

\* the while loop of lines 93-115; m holds l, r, k, swap, data_to, weights_to
\* and the log: the destination indices written and the accesses made
RECURSIVE MergeRuns(_, _, _, _, _, _)
MergeRuns(data_from, weights_from, cw, right, end, m) ==
    IF ~(m.l < right /\ m.r < end) THEN m
    ELSE IF Greater(At(data_from, m.l), At(data_from, m.r))
    THEN MergeRuns(data_from, weights_from, cw, right, end,
            [m EXCEPT !.swap = @ + SwapTemp(weights_from, cw, m.l, m.r, right),
                      !.data_to = Put(@, m.k, At(data_from, m.r)),
                      !.weights_to = Put(@, m.k, At(weights_from, m.r)),
                      !.writes = Append(@, m.k),
                      !.acc = @ \cup CompareAccesses(m.l, m.r)
                                \cup SwapAccesses(m.l, m.r, right)
                                \cup CopyAccesses(m.r, m.k),
                      !.k = @ + 1,
                      !.r = @ + 1])
    ELSE MergeRuns(data_from, weights_from, cw, right, end,
            [m EXCEPT !.data_to = Put(@, m.k, At(data_from, m.l)),
                      !.weights_to = Put(@, m.k, At(weights_from, m.l)),
                      !.writes = Append(@, m.k),
                      !.acc = @ \cup CompareAccesses(m.l, m.r) \cup CopyAccesses(m.l, m.k),
                      !.k = @ + 1,
                      !.l = @ + 1])

\* the loop of lines 117-122
RECURSIVE DrainLeft(_, _, _, _)
DrainLeft(data_from, weights_from, right, m) ==
    IF m.l < right
    THEN DrainLeft(data_from, weights_from, right,
            [m EXCEPT !.data_to = Put(@, m.k, At(data_from, m.l)),
                      !.weights_to = Put(@, m.k, At(weights_from, m.l)),
                      !.writes = Append(@, m.k),
                      !.acc = @ \cup CopyAccesses(m.l, m.k),
                      !.k = @ + 1,
                      !.l = @ + 1])
    ELSE m

\* the loop of lines 124-129
RECURSIVE DrainRight(_, _, _, _)
DrainRight(data_from, weights_from, end, m) ==
    IF m.r < end
    THEN DrainRight(data_from, weights_from, end,
            [m EXCEPT !.data_to = Put(@, m.k, At(data_from, m.r)),
                      !.weights_to = Put(@, m.k, At(weights_from, m.r)),
                      !.writes = Append(@, m.k),
                      !.acc = @ \cup CopyAccesses(m.r, m.k),
                      !.k = @ + 1,
                      !.r = @ + 1])
    ELSE m

\* DrainRuns without the else branch of line 123
DrainRunsLeftOnly(data_from, weights_from, right, end, m) ==
    DrainLeft(data_from, weights_from, right, m)

\* lines 116-130: whichever run is left over is copied
DrainRuns(data_from, weights_from, right, end, m) ==
    IF m.l < right
    THEN DrainLeft(data_from, weights_from, right, m)
    ELSE DrainRight(data_from, weights_from, end, m)

\* the loop of lines 82-132: merge the pairs of runs of width stp, left to right
RECURSIVE MergeBlocks(_, _, _, _, _)
MergeBlocks(data_from, weights_from, cw, stp, m) ==
    LET dl == Len(data_from)
        right == m.left + stp
        end0 == right + stp
    IN  IF end0 > dl /\ right > dl THEN m
        ELSE LET end == IF end0 > dl THEN dl ELSE end0
                 merged == MergeRuns(data_from, weights_from, cw, right, end,
                                     [m EXCEPT !.l = m.left, !.r = right])
                 drained == DrainRuns(data_from, weights_from, right, end, merged)
             IN  MergeBlocks(data_from, weights_from, cw, stp,
                             [drained EXCEPT !.left = end])

\* the loop of lines 136-140
RECURSIVE CopyTailLoop(_, _, _)
CopyTailLoop(data_from, weights_from, m) ==
    IF m.k < Len(data_from)
    THEN CopyTailLoop(data_from, weights_from,
            [m EXCEPT !.data_to = Put(@, m.k, At(data_from, m.k)),
                      !.weights_to = Put(@, m.k, At(weights_from, m.k)),
                      !.writes = Append(@, m.k),
                      !.acc = @ \cup CopyAccesses(m.k, m.k),
                      !.k = @ + 1])
    ELSE m

\* CopyTail that leaves the tail where it is
CopyTailSkipped(data_from, weights_from, m) == m

\* lines 135-141: copy any unmerged tail
CopyTail(data_from, weights_from, m) == CopyTailLoop(data_from, weights_from, m)

\* the body of the while loop of line 66, lines 67-141, for one run width
MergePass(data_from, weights_from, data_to, weights_to, cw0, stp, swap0) ==
    LET cw == CumWeights(weights_from, cw0, 0)
        m0 == [left |-> 0, k |-> 0, l |-> 0, r |-> 0, swap |-> swap0,
               data_to |-> data_to, weights_to |-> weights_to,
               writes |-> <<>>,
               acc |-> {<<"weights_from", 0>>, <<"cum_weights_buf", 0>>}]
        blocks == MergeBlocks(data_from, weights_from, cw, stp, m0)
        done == CopyTail(data_from, weights_from, blocks)
    IN  [data_to |-> done.data_to, weights_to |-> done.weights_to,
         cum_weights_buf |-> cw, swap |-> done.swap, k |-> done.k,
         writes |-> done.writes, acc |-> done.acc]

\* ------------------------------------------------ weighted_merge_sort_mut
\* MismatchedArrayLengths reporting the first length twice
MismatchedArrayLengthsSame(a_len, b_len) ==
    [tag |-> "Err", kind |-> "MismatchedArrayLengths",
     a_arr_len |-> a_len, b_arr_len |-> a_len]

MismatchedArrayLengths(a_len, b_len) ==
    [tag |-> "Err", kind |-> "MismatchedArrayLengths",
     a_arr_len |-> a_len, b_arr_len |-> b_len]

Ok(v) == [tag |-> "Ok", value |-> v]

NoRet == [tag |-> "None"]

\* the locals of lines 48-64 for slices d and w of one length
SortLocals(d, w) ==
    [data |-> d, weights |-> w,
     data_buf |-> Filled(Len(d), 0), weights_buf |-> Filled(Len(d), 0),
     cum_weights_buf |-> Filled(Len(d), 0),
     step |-> 1, data_in_buffer |-> FALSE, swap |-> 0]

\* lines 67-142: one pass from the current source into the current
\* destination
PassResult(s) ==
    IF s.data_in_buffer
    THEN MergePass(s.data_buf, s.weights_buf, s.data, s.weights,
                   s.cum_weights_buf, s.step, s.swap)
    ELSE MergePass(s.data, s.weights, s.data_buf, s.weights_buf,
                   s.cum_weights_buf, s.step, s.swap)

\* lines 144-149: the locals after the pass with result p: the swap of
\* source and destination and the doubling
AfterPass(s, p) ==
    [data |-> IF s.data_in_buffer THEN p.data_to ELSE s.data,
     weights |-> IF s.data_in_buffer THEN p.weights_to ELSE s.weights,
     data_buf |-> IF s.data_in_buffer THEN s.data_buf ELSE p.data_to,
     weights_buf |-> IF s.data_in_buffer THEN s.weights_buf ELSE p.weights_to,
     cum_weights_buf |-> p.cum_weights_buf,
     step |-> s.step * 2,
     data_in_buffer |-> ~s.data_in_buffer,
     swap |-> p.swap]

\* lines 67-149: one iteration of the while loop
PassOf(s) == AfterPass(s, PassResult(s))

\* no pass has run yet
NoLog == [k |-> 0, writes |-> <<>>, acc |-> {}]

\* what the pass with result p did: its final k, the indices of the
\* destination it wrote (lines 103-138) and the accesses of lines 71-138
PassLog(p) == [k |-> p.k, writes |-> p.writes, acc |-> p.acc]

\* LoopCond with <= for <
LoopCondInclusive(s) == s.step <= Len(s.data)

\* the condition of the while loop of line 66
LoopCond(s) == s.step < Len(s.data)

\* the while loop of line 66
RECURSIVE SortLoop(_)
SortLoop(s) == IF LoopCond(s) THEN SortLoop(PassOf(s)) ELSE s

\* CopyBack that never copies
CopyBackNever(s) == s

\* lines 152-156: the copy back when the result is in the buffer
CopyBack(s) ==
    IF s.data_in_buffer
    THEN [s EXCEPT !.data = s.data_buf, !.weights = s.weights_buf]
    ELSE s

\* weighted_merge_sort_mut as one call: the result and the slices after it
WeightedMergeSortMut(d, w) ==
    IF Len(d) # Len(w)
    THEN [ret |-> MismatchedArrayLengths(Len(d), Len(w)), data |-> d, weights |-> w]
    ELSE LET s == CopyBack(SortLoop(SortLocals(d, w)))
         IN  [ret |-> Ok(s.swap), data |-> s.data, weights |-> s.weights]

\* ------------------------------------------- kendall_tau.rs: real numbers
\* An f64 result num / (den * sqrt(rad)) with den > 0, rad > 0 square-free
\* and num, den coprime: one record per real number.
Real(num, den, rad) == [nan |-> FALSE, num |-> num, den |-> den, rad |-> rad]

Zero == Real(0, 1, 1)
One == Real(1, 1, 1)
MinusOne == Real(-1, 1, 1)
NaN == [nan |-> TRUE, num |-> 0, den |-> 0, rad |-> 0]

Abs(x) == IF x < 0 THEN -x ELSE x

RECURSIVE Gcd(_, _)
Gcd(x, y) == IF y = 0 THEN x ELSE Gcd(y, x % y)

\* the largest s with s * s dividing x, for x > 0; IntRoot(x) is the largest
\* r with r * r <= x
RECURSIVE IntRoot(_)
IntRoot(x) ==
    IF x < 2 THEN x
    ELSE LET r == 2 * IntRoot(x \div 4)
         IN  IF (r + 1) * (r + 1) <= x THEN r + 1 ELSE r

SquarePart(x) ==
    LET squares == {s \in 1..IntRoot(x) : x % (s * s) = 0}
    IN  CHOOSE s \in squares : \A t \in squares : t <= s

\* f64::sqrt of line 100: NaN below zero, zero at zero, else the root s * sqrt(t)
Sqrt(x) ==
    IF x < 0 THEN [nan |-> TRUE, s |-> 0, t |-> 0]
    ELSE IF x = 0 THEN [nan |-> FALSE, s |-> 0, t |-> 1]
    ELSE LET s == SquarePart(x) IN [nan |-> FALSE, s |-> s, t |-> x \div (s * s)]

\* the quotient of line 102, for a root that is neither zero nor NaN
Quotient(n, root) ==
    IF n = 0 THEN Zero
    ELSE LET g == Gcd(Abs(n), root.s)
         IN  Real(n \div g, root.s \div g, root.t)

\* tau >= 1.0 and tau <= -1.0 of lines 104 and 106
AtLeastOne(q) == q.num > 0 /\ q.num * q.num >= q.den * q.den * q.rad
AtMostMinusOne(q) == q.num < 0 /\ q.num * q.num >= q.den * q.den * q.rad

\* ------------------------------------------- kendall_tau.rs: ranking
\* line 124: the indices 0..dl-1 in the order of a stable sort by value
RECURSIVE StableOrder(_, _, _)
StableOrder(d, left, acc) ==
    IF left = {} THEN acc
    ELSE LET i == CHOOSE x \in left :
                    \A y \in left : At(d, x) < At(d, y) \/ (At(d, x) = At(d, y) /\ x <= y)
         IN  StableOrder(d, left \ {i}, Append(acc, i))

SortedIndices(d) == StableOrder(d, 0..(Len(d) - 1), <<>>)

\* lines 136-140: the end j of the group of values tied with the one at i
RECURSIVE TieEnd(_, _, _, _)
TieEnd(d, indices, cur_val, j) ==
    IF j < Len(d) /\ At(d, At(indices, j)) = cur_val
    THEN TieEnd(d, indices, cur_val, j + 1)
    ELSE j

\* AvgRank giving the group the rank after its last one
AvgRankPastGroup(cur_rank, group_size) == cur_rank + group_size

\* line 143: the rank given to a whole tie group, in i32 arithmetic
AvgRank(cur_rank, group_size) == cur_rank + (group_size - 1) \div 2

\* lines 149-154: sum of the weight products over the pairs k < l of a group
RECURSIVE TieGroupCorr(_, _, _, _)
TieGroupCorr(w, tied_indices, k, l) ==
    IF k >= Len(tied_indices) THEN 0
    ELSE IF l >= Len(tied_indices) THEN TieGroupCorr(w, tied_indices, k + 1, k + 2)
    ELSE At(w, At(tied_indices, k)) * At(w, At(tied_indices, l))
         + TieGroupCorr(w, tied_indices, k, l + 1)

\* AddTieCorr without the factor of 2
AddTieCorrOnce(tie_corr, tie_group_corr) == tie_corr + tie_group_corr

\* line 156: factor of 2 for symmetric pairs
AddTieCorr(tie_corr, tie_group_corr) == tie_corr + 2 * tie_group_corr

\* the while loop of lines 132-160; r holds i, cur_rank, ranks, tie_corr
RECURSIVE RankLoop(_, _, _, _)
RankLoop(d, w, indices, r) ==
    IF ~(r.i < Len(d)) THEN r
    ELSE LET cur_val == At(d, At(indices, r.i))
             j == TieEnd(d, indices, cur_val, r.i)
             tied_indices == SubSeq(indices, r.i + 1, j)
             group_size == j - r.i
             avg_rank == AvgRank(r.cur_rank, group_size)
             tied == {At(tied_indices, k) : k \in 0..(group_size - 1)}
         IN  RankLoop(d, w, indices,
                [i |-> j,
                 cur_rank |-> r.cur_rank + group_size,
                 ranks |-> [x \in 1..Len(d) |->
                               IF (x - 1) \in tied THEN avg_rank ELSE r.ranks[x]],
                 tie_corr |-> IF group_size > 1
                              THEN AddTieCorr(r.tie_corr, TieGroupCorr(w, tied_indices, 0, 1))
                              ELSE r.tie_corr])

\* rank_with_weights, lines 117-163
RankWithWeights(d, w) ==
    LET r == RankLoop(d, w, SortedIndices(d),
                      [i |-> 0, cur_rank |-> 1, ranks |-> Filled(Len(d), 0), tie_corr |-> 0])
    IN  [ranks |-> r.ranks, tie_corr |-> r.tie_corr]

\* ------------------------------------------- weighted_kendall_tau_b
\* lines 67-84: both rankings, then b's ranks and the weights in a-rank order
RankStep(a, b, w) ==
    LET ra == RankWithWeights(a, w)
        rb == RankWithWeights(b, w)
        order == SortedIndices(ra.ranks)
    IN  [a_ranks |-> ra.ranks, a_tie_corr |-> ra.tie_corr,
         b_ranks |-> rb.ranks, b_tie_corr |-> rb.tie_corr,
         b_sorted |-> [k \in 1..Len(a) |-> At(rb.ranks, order[k])],
         w_sorted |-> [k \in 1..Len(a) |-> At(w, order[k])]]

RECURSIVE SumSeq(_, _)
SumSeq(w, i) == IF i > Len(w) THEN 0 ELSE w[i] + SumSeq(w, i + 1)

RECURSIVE SumSqr(_, _)
SumSqr(w, i) == IF i > Len(w) THEN 0 ELSE w[i] * w[i] + SumSqr(w, i + 1)

\* TotalWPairs counting every ordered pair of observations once, whatever
\* its weights
TotalWPairsUnweighted(w) == Len(w) * (Len(w) - 1)

\* lines 90-92
TotalWPairs(w) == SumSeq(w, 1) * SumSeq(w, 1) - SumSqr(w, 1)

\* lines 95-96; total_w_pairs is twice a sum of products, so its half is exact
Numer(twp, sw) == ((twp \div 2) - sw) - sw

\* line 100, under the square root
Radicand(twp, a_tie, b_tie) == (twp - a_tie) * (twp - b_tie)

\* TauOf returning the quotient as it is
TauOfUnclamped(n, radicand) ==
    LET root == Sqrt(radicand)
    IN  IF ~root.nan /\ root.s # 0
        THEN Ok(Quotient(n, root))
        ELSE Ok(Zero)

\* TauOf dividing whatever the denominator is: 0/0 and x/NaN are NaN
TauOfPropagating(n, radicand) ==
    LET root == Sqrt(radicand)
    IN  IF ~root.nan /\ root.s # 0
        THEN LET t == Quotient(n, root)
             IN  IF AtLeastOne(t) THEN Ok(One)
                 ELSE IF AtMostMinusOne(t) THEN Ok(MinusOne)
                 ELSE Ok(t)
        ELSE Ok(NaN)

\* lines 100-113
TauOf(n, radicand) ==
    LET root == Sqrt(radicand)
    IN  IF ~root.nan /\ root.s # 0
        THEN LET t == Quotient(n, root)
             IN  IF AtLeastOne(t) THEN Ok(One)
                 ELSE IF AtMostMinusOne(t) THEN Ok(MinusOne)
                 ELSE Ok(t)
        ELSE Ok(Zero)

\* TooFew that lets a single observation through
TooFewOnlyEmpty(dl) == dl < 1

\* line 63: no tau for fewer than 2 elements
TooFew(dl) == dl < 2

\* WeightedKendallTauB testing the number of observations before the lengths
WeightedKendallTauBShortFirst(a, b, w) ==
    IF TooFew(Len(a)) THEN Ok(Zero)
    ELSE IF Len(a) # Len(b) \/ Len(a) # Len(w)
    THEN MismatchedArrayLengths(Len(a), IF Len(b) <= Len(w) THEN Len(b) ELSE Len(w))
    ELSE LET r == RankStep(a, b, w)
             sw == WeightedMergeSortMut(r.b_sorted, r.w_sorted).ret.value
             twp == TotalWPairs(w)
         IN  TauOf(Numer(twp, sw), Radicand(twp, r.a_tie_corr, r.b_tie_corr))

\* weighted_kendall_tau_b as one call
WeightedKendallTauB(a, b, w) ==
    IF Len(a) # Len(b) \/ Len(a) # Len(w)
    THEN MismatchedArrayLengths(Len(a), IF Len(b) <= Len(w) THEN Len(b) ELSE Len(w))
    ELSE IF TooFew(Len(a)) THEN Ok(Zero)
    ELSE LET r == RankStep(a, b, w)
             sw == WeightedMergeSortMut(r.b_sorted, r.w_sorted).ret.value
             twp == TotalWPairs(w)
         IN  TauOf(Numer(twp, sw), Radicand(twp, r.a_tie_corr, r.b_tie_corr))

\* ------------------------------------------- the other operations at rest
NoArray == [dtype |-> "none", shape |-> <<>>, elems |-> <<>>]

\* no call of saca_2d / saca_3d is in progress
SacaIdle ==
    /\ saca_fn = "none"
    /\ saca_a = NoArray
    /\ saca_b = NoArray
    /\ saca_ta = 0
    /\ saca_tb = 0
    /\ saca_parallel = [some |-> FALSE]
    /\ saca_owner = <<>>
    /\ saca_next = <<>>
    /\ saca_out = <<>>
    /\ saca_log = <<>>
    /\ saca_ret = NoRet

\* no call of saca_significance_mask is in progress
MaskIdle ==
    /\ mask_data = NoArray
    /\ mask_alpha = [some |-> FALSE]
    /\ mask_parallel = [some |-> FALSE]
    /\ mask_out = <<>>
    /\ mask_written = {}
    /\ mask_ret = NoRet

\* no call of pearson_roi_coloc is in progress
RoiIdle ==
    /\ roi_a = NoArray
    /\ roi_b = NoArray
    /\ roi_rois = <<>>
    /\ roi_parallel = FALSE
    /\ roi_todo = {}
    /\ roi_acc = <<>>
    /\ roi_ret = NoRet

\* no call of div_tile or div_untile is in progress
TileIdle ==
    /\ tile_data = NoArray
    /\ tile_div = 0
    /\ tile_stack = <<>>
    /\ tile_ret = NoRet
    /\ untile_stack = <<>>
    /\ untile_div = 0
    /\ untile_shape = <<>>
    /\ untile_arr = <<>>
    /\ untile_t = 0
    /\ untile_ret = NoRet

\* no call of min_max is in progress
MinMaxIdle ==
    /\ mm_data = <<>>
    /\ mm_parallel = FALSE
    /\ mm_chunks = <<>>
    /\ mm_accs = <<>>
    /\ mm_next = <<>>
    /\ mm_live = {}
    /\ mm_ret = NoRet

\* no caller is repeating a call of weighted_kendall_tau_b
ZeroWeightIdle ==
    /\ zw_a = <<>>
    /\ zw_b = <<>>
    /\ zw_w = <<>>
    /\ zw_ret = NoRet
    /\ zw_base = NoRet

\* no KDTree exists
KdIdle ==
    /\ kd_cloud = <<>>
    /\ kd_nodes = <<>>
    /\ kd_root = [some |-> FALSE]
    /\ kd_query = <<>>
    /\ kd_radius = 0
    /\ kd_results = <<>>

ExtIdle ==
    SacaIdle /\ MaskIdle /\ RoiIdle /\ TileIdle /\ MinMaxIdle /\ ZeroWeightIdle /\ KdIdle

\* Passes completed so far: step is doubled once per pass (line 149)
RECURSIVE Log2(_)
Log2(n) == IF n <= 1 THEN 0 ELSE 1 + Log2(n \div 2)

Passes == Log2(step)

\* the locals of weighted_kendall_tau_b before the call
TauLocalsInit ==
    /\ a_ranks = <<>>
    /\ b_ranks = <<>>
    /\ a_tie_corr = 0
    /\ b_tie_corr = 0
    /\ b_sorted = <<>>
    /\ w_sorted = <<>>
    /\ swaps = 0
    /\ total_w_pairs = 0
    /\ numer = 0
    /\ denom = Sqrt(0)
    /\ tau_ret = NoRet

\* no call of weighted_kendall_tau_b is in progress
TauIdle ==
    /\ data_a = <<>>
    /\ data_b = <<>>
    /\ tau_weights = <<>>
    /\ TauLocalsInit

\* the caller holds a data slice and a weights slice and calls the sort
InitSort ==
    /\ pc = "call"
    /\ \/ \E n \in 0..MaxLen :
             /\ data \in [1..n -> Values]
             /\ weights \in [1..n -> SortWeights]
       \/ /\ data \in SeqsUpTo(Values, MaxLen)
          /\ weights \in SeqsUpTo(SortWeights, MaxLen - 1)
          /\ Len(data) # Len(weights)
    /\ arg_data = data
    /\ arg_weights = weights
    /\ data_buf = <<>>
    /\ weights_buf = <<>>
    /\ cum_weights_buf = <<>>
    /\ step = 1
    /\ data_in_buffer = FALSE
    /\ swap = 0
    /\ ret = NoRet
    /\ pass_log = NoLog
    /\ TauIdle
    /\ ExtIdle

\* lines 34-44: the lengths differ
SortMismatch ==
    /\ pc = "call"
    /\ Len(data) # Len(weights)
    /\ ret' = MismatchedArrayLengths(Len(data), Len(weights))
    /\ pc' = "done"
    /\ UNCHANGED <<data, weights, data_buf, weights_buf, cum_weights_buf,
                   step, data_in_buffer, swap, arg_data, arg_weights, pass_log, tau_vars, ext_vars>>

\* the locals of the running call, as one record
Locals ==
    [data |-> data, weights |-> weights,
     data_buf |-> data_buf, weights_buf |-> weights_buf,
     cum_weights_buf |-> cum_weights_buf,
     step |-> step, data_in_buffer |-> data_in_buffer, swap |-> swap]

\* lines 46-64: parameters and working buffers
SortSetup ==
    /\ pc = "call"
    /\ Len(data) = Len(weights)
    /\ LET s == SortLocals(data, weights)
       IN  /\ swap' = s.swap
           /\ step' = s.step
           /\ data_buf' = s.data_buf
           /\ weights_buf' = s.weights_buf
           /\ cum_weights_buf' = s.cum_weights_buf
           /\ data_in_buffer' = s.data_in_buffer
    /\ pc' = "loop"
    /\ UNCHANGED <<data, weights, ret, arg_data, arg_weights, pass_log, tau_vars, ext_vars>>

\* lines 66-150: one pass of the while loop, then the ping-pong swap
SortPass ==
    /\ pc = "loop"
    /\ LoopCond(Locals)
    /\ \E p \in {PassResult(Locals)} :
          /\ \E s \in {AfterPass(Locals, p)} :
                /\ data' = s.data
                /\ weights' = s.weights
                /\ data_buf' = s.data_buf
                /\ weights_buf' = s.weights_buf
                /\ cum_weights_buf' = s.cum_weights_buf
                /\ swap' = s.swap
                /\ data_in_buffer' = s.data_in_buffer
                /\ step' = s.step
          /\ pass_log' = PassLog(p)
    /\ UNCHANGED <<pc, ret, arg_data, arg_weights, tau_vars, ext_vars>>

\* line 66 fails and line 153 holds: the result is in the buffer
SortLoopExitToCopy ==
    /\ pc = "loop"
    /\ ~LoopCond(Locals)
    /\ data_in_buffer
    /\ pc' = "copy"
    /\ UNCHANGED <<data, weights, data_buf, weights_buf, cum_weights_buf,
                   step, data_in_buffer, swap, ret, arg_data, arg_weights, pass_log, tau_vars, ext_vars>>

\* lines 154-155: copy the buffer back into the caller's slices
SortCopyBack ==
    /\ pc = "copy"
    /\ data' = CopyBack(Locals).data
    /\ weights' = CopyBack(Locals).weights
    /\ pc' = "return"
    /\ UNCHANGED <<data_buf, weights_buf, cum_weights_buf,
                   step, data_in_buffer, swap, ret, arg_data, arg_weights, pass_log, tau_vars, ext_vars>>

\* line 66 fails and line 153 fails: the result is in the caller's slices
SortLoopExitNoCopy ==
    /\ pc = "loop"
    /\ ~LoopCond(Locals)
    /\ ~data_in_buffer
    /\ pc' = "return"
    /\ UNCHANGED <<data, weights, data_buf, weights_buf, cum_weights_buf,
                   step, data_in_buffer, swap, ret, arg_data, arg_weights, pass_log, tau_vars, ext_vars>>

\* line 158
SortReturn ==
    /\ pc = "return"
    /\ ret' = Ok(swap)
    /\ pc' = "done"
    /\ UNCHANGED <<data, weights, data_buf, weights_buf, cum_weights_buf,
                   step, data_in_buffer, swap, arg_data, arg_weights, pass_log, tau_vars, ext_vars>>

NextSort ==
    \/ SortMismatch
    \/ SortSetup
    \/ SortPass
    \/ SortLoopExitToCopy
    \/ SortCopyBack
    \/ SortLoopExitNoCopy
    \/ SortReturn

Spec == InitSort /\ [][NextSort]_vars

\* ------------------------------------------- weighted_kendall_tau_b, stepwise
\* no call of weighted_merge_sort_mut by the caller is in progress
SortIdle ==
    /\ data = <<>>
    /\ weights = <<>>
    /\ arg_data = <<>>
    /\ arg_weights = <<>>
    /\ data_buf = <<>>
    /\ weights_buf = <<>>
    /\ cum_weights_buf = <<>>
    /\ step = 1
    /\ data_in_buffer = FALSE
    /\ swap = 0
    /\ ret = NoRet
    /\ pass_log = NoLog

\* the arguments of one call: three slices of one length up to MaxObs, or
\* shorter slices of differing lengths
TauArgs(W) ==
    \/ \E n \in 0..MaxObs :
          /\ data_a \in [1..n -> Observations]
          /\ data_b \in [1..n -> Observations]
          /\ tau_weights \in [1..n -> W]
    \/ /\ data_a \in SeqsUpTo(Observations, MaxObs - 1)
       /\ data_b \in SeqsUpTo(Observations, MaxObs - 1)
       /\ tau_weights \in SeqsUpTo(W, MaxObs - 1)
       /\ Len(data_a) # Len(data_b) \/ Len(data_a) # Len(tau_weights)

\* the caller holds two datasets and non-negative weights and calls the
\* correlation
InitTau ==
    /\ pc = "tau_call"
    /\ TauArgs(TauWeights)
    /\ TauLocalsInit
    /\ SortIdle
    /\ ExtIdle

\* the same with weights of either sign
InitTauSigned ==
    /\ pc = "tau_call"
    /\ TauArgs(SignedWeights)
    /\ TauLocalsInit
    /\ SortIdle
    /\ ExtIdle

\* lines 53-60
TauMismatch ==
    /\ pc = "tau_call"
    /\ Len(data_a) # Len(data_b) \/ Len(data_a) # Len(tau_weights)
    /\ tau_ret' = WeightedKendallTauB(data_a, data_b, tau_weights)
    /\ pc' = "tau_done"
    /\ UNCHANGED <<ext_vars, sort_vars, data_a, data_b, tau_weights, tau_locals>>

\* lines 62-65
TauTooFew ==
    /\ pc = "tau_call"
    /\ ~(Len(data_a) # Len(data_b) \/ Len(data_a) # Len(tau_weights))
    /\ TooFew(Len(data_a))
    /\ tau_ret' = WeightedKendallTauB(data_a, data_b, tau_weights)
    /\ pc' = "tau_done"
    /\ UNCHANGED <<ext_vars, sort_vars, data_a, data_b, tau_weights, tau_locals>>

\* lines 67-113: ranking, the sort of b_sorted and w_sorted in place, the
\* quotient and its clamp
TauCompute ==
    /\ pc = "tau_call"
    /\ ~(Len(data_a) # Len(data_b) \/ Len(data_a) # Len(tau_weights))
    /\ ~TooFew(Len(data_a))
    /\ \E r \in {RankStep(data_a, data_b, tau_weights)} :
          /\ a_ranks' = r.a_ranks
          /\ a_tie_corr' = r.a_tie_corr
          /\ b_ranks' = r.b_ranks
          /\ b_tie_corr' = r.b_tie_corr
          /\ \E sorted \in {WeightedMergeSortMut(r.b_sorted, r.w_sorted)} :
                /\ b_sorted' = sorted.data
                /\ w_sorted' = sorted.weights
                /\ swaps' = sorted.ret.value
    /\ total_w_pairs' = TotalWPairs(tau_weights)
    /\ numer' = Numer(total_w_pairs', swaps')
    /\ denom' = Sqrt(Radicand(total_w_pairs', a_tie_corr', b_tie_corr'))
    /\ tau_ret' = TauOf(numer', Radicand(total_w_pairs', a_tie_corr', b_tie_corr'))
    /\ pc' = "tau_done"
    /\ UNCHANGED <<ext_vars, sort_vars, data_a, data_b, tau_weights>>

NextTau ==
    \/ TauMismatch
    \/ TauTooFew
    \/ TauCompute

SpecTau == InitTau /\ [][NextTau]_vars

SpecTauSigned == InitTauSigned /\ [][NextTau]_vars

\* the same with non-negative weights far enough apart for the quotient to
\* leave [-1, 1]
InitTauHeavy ==
    /\ pc = "tau_call"
    /\ TauArgs(HeavyWeights)
    /\ TauLocalsInit
    /\ SortIdle
    /\ ExtIdle

SpecTauHeavy == InitTauHeavy /\ [][NextTau]_vars

\* ------------------------------------------- rank_with_weights alone
MaxRank == 4

\* weighted_kendall_tau_b is at line 68: a dataset of at least 2 values and
\* as many weights
InitRank ==
    /\ pc = "rank_call"
    /\ \E n \in 2..MaxRank :
          /\ data_a \in [1..n -> Observations]
          /\ tau_weights \in [1..n -> TauWeights]
    /\ data_b = <<>>
    /\ TauLocalsInit
    /\ SortIdle
    /\ ExtIdle

\* lines 68, 117-163: the ranks and the tie correction of the dataset
RankCall ==
    /\ pc = "rank_call"
    /\ \E r \in {RankWithWeights(data_a, tau_weights)} :
          /\ a_ranks' = r.ranks
          /\ a_tie_corr' = r.tie_corr
    /\ pc' = "rank_done"
    /\ UNCHANGED <<ext_vars, sort_vars, data_a, data_b, tau_weights, b_ranks, b_tie_corr,
                   b_sorted, w_sorted, swaps, total_w_pairs, numer, denom, tau_ret>>

NextRank == RankCall

SpecRank == InitRank /\ [][NextRank]_vars

\* ------------------------------------------------ n-dimensional arrays
\* An array is its element type, its shape and its elements in row-major
\* order; k is the 0-based linear index of an element.
Array(dtype, shape, elems) == [dtype |-> dtype, shape |-> shape, elems |-> elems]

RECURSIVE Product(_, _)
Product(s, i) == IF i > Len(s) THEN 1 ELSE s[i] * Product(s, i + 1)

Size(shape) == Product(shape, 1)

\* the coordinates of the element at linear index k
Unravel(shape, k) ==
    [a \in 1..Len(shape) |-> (k \div Product(shape, a + 1)) % shape[a]]

Arrays(dtype, shape, S) == {Array(dtype, shape, e) : e \in [1..Size(shape) -> S]}

\* the images with a background pixel in the first corner
Images(dtype, shape, S) == {x \in Arrays(dtype, shape, S) : x.elems[1] = 1}

\* ------------------------------------------------ saca_2d / saca_3d
\* the images and the thresholds the callers pass
SacaPixels == {1, 2}
Shapes2D == {<<1, 2>>, <<2, 1>>, <<2, 2>>}
Shapes3D == {<<1, 1, 2>>, <<2, 1, 1>>}
Thresholds == {<<-1, 1>>, <<2, 2>>}
Workers == 1..MaxWorkers

None == [some |-> FALSE]
Some(v) == [some |-> TRUE, val |-> v]

\* line 139: parallel.unwrap_or(false)
UnwrapOr(opt, default) == IF opt.some THEN opt.val ELSE default

\* PyReadonlyArray2 for saca_2d, PyReadonlyArray3 for saca_3d
Dims(fn) == IF fn = "saca_2d" THEN 2 ELSE 3

\* the element types tried by the binding, in the order of lines 140-195
SupportedDtypes == <<"u8", "u16", "u64", "i64", "f32", "f64">>

\* data.extract::<PyReadonlyArrayN<dtype>>() succeeds
Extracts(arr, fn, dtype) == arr.dtype = dtype /\ Len(arr.shape) = Dims(fn)

\* some branch of the if / else-if chain takes data_a
Supported(arr, fn) == \E i \in 1..Len(SupportedDtypes) : Extracts(arr, fn, SupportedDtypes[i])

\* the spacing of the f32 values around a: the least power of two ulp with
\* a / ulp below 2^24, the width of the f32 significand
RECURSIVE F32Ulp(_, _)
F32Ulp(a, ulp) == IF a \div ulp < 16777216 THEN ulp ELSE F32Ulp(a, 2 * ulp)

\* `threshold as f32` of lines 189-190 for an integral threshold: the nearest
\* f32, ties to the even significand; exact up to 2^24 in magnitude.
\* Thresholds from 2^31 - 64 on round to 2^31, which is no value here.
RoundF32(t) ==
    LET a == Abs(t)
        ulp == F32Ulp(a, 1)
        q == a \div ulp
        r == a % ulp
        up == 2 * r > ulp \/ (2 * r = ulp /\ q % 2 = 1)
        m == (IF up THEN q + 1 ELSE q) * ulp
    IN  IF t < 0 THEN -m ELSE m

\* `threshold as T` of lines 145-146, 156-157, 167-168, 178-179, 189-190:
\* a float to integer cast saturates, a cast to f32 rounds
CastThreshold(t, dtype) ==
    IF dtype \in {"u8", "u16", "u64"} /\ t < 0 THEN 0
    ELSE IF dtype = "u8" /\ t > 255 THEN 255
    ELSE IF dtype = "u16" /\ t > 65535 THEN 65535
    ELSE IF dtype = "f32" THEN RoundF32(t)
    ELSE t

MismatchedArrayShapes(a_shape, b_shape) ==
    [tag |-> "Err", kind |-> "MismatchedArrayShapes",
     a_shape |-> a_shape, b_shape |-> b_shape]

\* map_imgal_error: the Python exception raised for an ImgalError
MapImgalError(err) ==
    [tag |-> "Err",
     exception |-> IF err.kind = "InvalidAxis" THEN "PyIndexError"
                   ELSE IF err.kind = "InvalidArrayGeneric" THEN "PyException"
                   ELSE "PyValueError",
     error |-> err]

\* the binding turning an Err of the core into no array at all
MapResultSwallowing(r) ==
    IF r.tag = "Ok" THEN r ELSE Ok(Array("f64", <<>>, <<>>))

\* lines 149-150: .map(into_pyarray).map_err(map_imgal_error)
MapResult(r) == IF r.tag = "Ok" THEN r ELSE MapImgalError(r)

PyTypeError == [tag |-> "Err", exception |-> "PyTypeError"]

\* the `?` of line 141: data_b is no array of data_a's type and rank
PyExtractError == [tag |-> "Err", exception |-> "PyExtractError"]

\* the largest kernel radius
Radius == 1

RECURSIVE SqDist(_, _, _)
SqDist(p, q, a) ==
    IF a > Len(p) THEN 0
    ELSE (p[a] - q[a]) * (p[a] - q[a]) + SqDist(p, q, a + 1)

\* the pixels of the kernel centred at k, in row-major order; offsets that
\* fall outside the image are skipped
RECURSIVE Kernel(_, _, _)
Kernel(shape, k, q) ==
    IF q >= Size(shape) THEN <<>>
    ELSE (IF SqDist(Unravel(shape, k), Unravel(shape, q), 1) <= Radius * Radius
          THEN <<q>> ELSE <<>>) \o Kernel(shape, k, q + 1)

\* the weight of the sample at q in the kernel of k: decreasing with the
\* distance, zero below either threshold
SampleWeight(a, b, ta, tb, k, q) ==
    IF At(a.elems, q) < ta \/ At(b.elems, q) < tb THEN 0
    ELSE Radius * Radius + 1 - SqDist(Unravel(a.shape, k), Unravel(a.shape, q), 1)

\* the score of the pixel k: the weighted tau of its neighbourhood (the
\* positive variance scale is left open and not applied)
ZScore(a, b, ta, tb, k) ==
    LET nb == Kernel(a.shape, k, 0)
    IN  WeightedKendallTauB([i \in 1..Len(nb) |-> At(a.elems, nb[i])],
                            [i \in 1..Len(nb) |-> At(b.elems, nb[i])],
                            [i \in 1..Len(nb) |-> SampleWeight(a, b, ta, tb, k, nb[i])]).value

\* the pixels from k on that the partition gives to worker w
RECURSIVE Owned(_, _, _)
Owned(owner, w, k) ==
    IF k >= Len(owner) THEN <<>>
    ELSE (IF At(owner, k) = w THEN <<k>> ELSE <<>>) \o Owned(owner, w, k + 1)

\* Share handing every worker the whole image
ShareWholeImage(owner, w) == [i \in 1..Len(owner) |-> i - 1]

\* the pixels of worker w, in row-major order
Share(owner, w) == Owned(owner, w, 0)

\* the partitions of n pixels: one share in sequential mode, any assignment
\* of the pixels to the workers in parallel mode
Partitions(n, parallel) ==
    IF parallel THEN [1..n -> Workers] ELSE {[k \in 1..n |-> 1]}

\* WriteCell storing a score at the worker's position in its share
WriteCellLocal(out, k, pos, z) == Put(out, pos, z)

\* the write of one output cell: the score of pixel k goes to cell k
WriteCell(out, k, pos, z) == Put(out, k, z)

\* the calls: images of one element type and rank, of equal or differing
\* shape, and small images of other types and ranks
SacaCalls ==
    \/ /\ saca_fn = "saca_2d"
       /\ \E sa, sb \in Shapes2D :
             /\ saca_a \in Images("f64", sa, SacaPixels)
             /\ saca_b \in Images("f64", sb, SacaPixels)
    \/ /\ saca_fn = "saca_3d"
       /\ \E sa, sb \in Shapes3D :
             /\ saca_a \in Images("f64", sa, SacaPixels)
             /\ saca_b \in Images("f64", sb, SacaPixels)
    \/ /\ saca_fn \in {"saca_2d", "saca_3d"}
       /\ \E da \in {"u8", "bool"}, db \in {"u8", "f64"} :
             /\ saca_a = Array(da, <<1, 2>>, <<1, 2>>)
             /\ saca_b = Array(db, <<1, 2>>, <<2, 1>>)

InitSaca ==
    /\ pc = "saca_call"
    /\ SacaCalls
    /\ \E t \in Thresholds : saca_ta = t[1] /\ saca_tb = t[2]
    /\ saca_parallel \in {None, Some(TRUE), Some(FALSE)}
    /\ saca_owner = <<>>
    /\ saca_next = <<>>
    /\ saca_out = <<>>
    /\ saca_log = <<>>
    /\ saca_ret = NoRet
    /\ SortIdle
    /\ TauIdle
    /\ ZeroWeightIdle
    /\ KdIdle
    /\ MaskIdle
    /\ RoiIdle
    /\ TileIdle
    /\ MinMaxIdle

\* lines 206-210: no branch takes data_a
SacaTypeError ==
    /\ pc = "saca_call"
    /\ ~Supported(saca_a, saca_fn)
    /\ saca_ret' = PyTypeError
    /\ pc' = "saca_done"
    /\ UNCHANGED <<saca_args, saca_owner, saca_next, saca_out, saca_log,
                   sort_vars, tau_vars, zw_vars, kd_vars,
                   mask_vars, roi_vars, tile_vars, mm_vars>>

\* line 141 and its likes: data_a is taken, data_b is of another type or rank
SacaExtractError ==
    /\ pc = "saca_call"
    /\ Supported(saca_a, saca_fn)
    /\ ~Extracts(saca_b, saca_fn, saca_a.dtype)
    /\ saca_ret' = PyExtractError
    /\ pc' = "saca_done"
    /\ UNCHANGED <<saca_args, saca_owner, saca_next, saca_out, saca_log,
                   sort_vars, tau_vars, zw_vars, kd_vars,
                   mask_vars, roi_vars, tile_vars, mm_vars>>

\* ShapesDiffer comparing the numbers of elements only
ShapesDifferInSize(a_shape, b_shape) == Size(a_shape) # Size(b_shape)

\* the shape validation of the core: the two images differ in some extent
ShapesDiffer(a_shape, b_shape) == a_shape # b_shape

\* the shapes differ: the core returns the error before any pixel is visited
SacaShapeMismatch ==
    /\ pc = "saca_call"
    /\ Supported(saca_a, saca_fn)
    /\ Extracts(saca_b, saca_fn, saca_a.dtype)
    /\ ShapesDiffer(saca_a.shape, saca_b.shape)
    /\ saca_ret' = MapResult(MismatchedArrayShapes(saca_a.shape, saca_b.shape))
    /\ pc' = "saca_done"
    /\ UNCHANGED <<saca_args, saca_owner, saca_next, saca_out, saca_log,
                   sort_vars, tau_vars, zw_vars, kd_vars,
                   mask_vars, roi_vars, tile_vars, mm_vars>>

\* the shapes agree: the thresholds are cast, the output field is allocated
\* and the pixels are handed to the workers
SacaStart ==
    /\ pc = "saca_call"
    /\ Supported(saca_a, saca_fn)
    /\ Extracts(saca_b, saca_fn, saca_a.dtype)
    /\ ~ShapesDiffer(saca_a.shape, saca_b.shape)
    /\ saca_ta' = CastThreshold(saca_ta, saca_a.dtype)
    /\ saca_tb' = CastThreshold(saca_tb, saca_a.dtype)
    /\ saca_owner' \in Partitions(Size(saca_a.shape), UnwrapOr(saca_parallel, FALSE))
    /\ saca_next' = [w \in Workers |-> 0]
    /\ saca_out' = Filled(Size(saca_a.shape), Zero)
    /\ saca_log' = Filled(Size(saca_a.shape), <<>>)
    /\ pc' = "saca_loop"
    /\ UNCHANGED <<saca_fn, saca_a, saca_b, saca_parallel, saca_ret,
                   sort_vars, tau_vars, zw_vars, kd_vars,
                   mask_vars, roi_vars, tile_vars, mm_vars>>

\* worker w scores the next pixel of its share and writes its output cell
SacaWorkerStep(w) ==
    /\ pc = "saca_loop"
    /\ saca_next[w] < Len(Share(saca_owner, w))
    /\ LET k == At(Share(saca_owner, w), saca_next[w])
       IN  /\ saca_out' = WriteCell(saca_out, k, saca_next[w],
                                    ZScore(saca_a, saca_b, saca_ta, saca_tb, k))
           /\ saca_log' = Put(saca_log, k, Append(At(saca_log, k), w))
    /\ saca_next' = [saca_next EXCEPT ![w] = saca_next[w] + 1]
    /\ UNCHANGED <<pc, saca_args, saca_owner, saca_ret, sort_vars, tau_vars, zw_vars, kd_vars,
                   mask_vars, roi_vars, tile_vars, mm_vars>>

\* every worker has finished its share: the field is returned
SacaReturn ==
    /\ pc = "saca_loop"
    /\ \A w \in Workers : saca_next[w] >= Len(Share(saca_owner, w))
    /\ saca_ret' = MapResult(Ok(Array("f64", saca_a.shape, saca_out)))
    /\ pc' = "saca_done"
    /\ UNCHANGED <<saca_args, saca_owner, saca_next, saca_out, saca_log,
                   sort_vars, tau_vars, zw_vars, kd_vars,
                   mask_vars, roi_vars, tile_vars, mm_vars>>

\* the sequential mode as one loop over the pixels in row-major order
RECURSIVE SequentialLoop(_, _, _, _, _, _)
SequentialLoop(a, b, ta, tb, out, k) ==
    IF k >= Size(a.shape) THEN out
    ELSE SequentialLoop(a, b, ta, tb, Put(out, k, ZScore(a, b, ta, tb, k)), k + 1)

SequentialField(a, b, ta, tb) ==
    Array("f64", a.shape, SequentialLoop(a, b, ta, tb, Filled(Size(a.shape), Zero), 0))

NextSaca ==
    \/ SacaTypeError
    \/ SacaExtractError
    \/ SacaShapeMismatch
    \/ SacaStart
    \/ \E w \in Workers : SacaWorkerStep(w)
    \/ SacaReturn

SpecSaca == InitSaca /\ [][NextSaca]_vars

\* ------------------------------------------------ saca_significance_mask
\* A z-score is NaN or a number of millionths.
Score(micro) == [nan |-> FALSE, micro |-> micro]
NaNScore == [nan |-> TRUE, micro |-> 0]

\* the scores of the fields the callers pass: NaN, 0, 10 and -2.3
Scores == {NaNScore, Score(0), Score(10000000), Score(-2300000)}
MaskShapes == {<<1>>, <<3>>, <<2, 2>>}

\* the significance levels the callers pass, in hundredths
Alphas == {1, 5}

\* the default significance level 0.05, in hundredths
DefaultAlpha == 5

\* the inverse standard normal CDF at 1 - alpha / (100 m), in millionths,
\* for alpha in hundredths and m = 1..8
UpperQuantile(alpha, m) ==
    IF alpha = 5
    THEN <<1644854, 1959964, 2128045, 2241403, 2326348, 2393980, 2449998, 2497705>>[m]
    ELSE <<2326348, 2575829, 2713052, 2807034, 2878162, 2935199, 2982704, 3023341>>[m]

\* ZCrit without the correction for the number of pixels
ZCritUncorrected(alpha, n) == UpperQuantile(alpha, 2)

\* the Bonferroni-corrected critical value: the quantile at 1 - alpha / (2 N)
ZCrit(alpha, n) == UpperQuantile(alpha, 2 * n)

\* Significant comparing the score itself, not its magnitude
SignificantSigned(z, crit) == ~z.nan /\ z.micro > crit

\* |z| > z_crit; every comparison with NaN is false
Significant(z, crit) == ~z.nan /\ Abs(z.micro) > crit

\* lines 363-370: the field is taken as a dynamic f64 array or not at all
ExtractsF64(arr) == arr.dtype = "f64"

InitMask ==
    /\ pc = "mask_call"
    /\ \/ \E sh \in MaskShapes : mask_data \in Arrays("f64", sh, Scores)
       \/ mask_data = Array("u8", <<2>>, <<Score(0), Score(10000000)>>)
    /\ mask_alpha \in {None} \cup {Some(x) : x \in Alphas}
    /\ mask_parallel \in {None, Some(TRUE), Some(FALSE)}
    /\ mask_out = <<>>
    /\ mask_written = {}
    /\ mask_ret = NoRet
    /\ SortIdle
    /\ TauIdle
    /\ ZeroWeightIdle
    /\ KdIdle
    /\ SacaIdle
    /\ RoiIdle
    /\ TileIdle
    /\ MinMaxIdle

\* lines 366-370
MaskTypeError ==
    /\ pc = "mask_call"
    /\ ~ExtractsF64(mask_data)
    /\ mask_ret' = PyTypeError
    /\ pc' = "mask_done"
    /\ UNCHANGED <<mask_args, mask_out, mask_written, sort_vars, tau_vars, zw_vars, kd_vars,
                   saca_vars, roi_vars, tile_vars, mm_vars>>

\* lines 362-364: the core is called; it allocates the mask
MaskStart ==
    /\ pc = "mask_call"
    /\ ExtractsF64(mask_data)
    /\ mask_out' = Filled(Size(mask_data.shape), FALSE)
    /\ pc' = "mask_loop"
    /\ UNCHANGED <<mask_args, mask_written, mask_ret, sort_vars, tau_vars, zw_vars, kd_vars,
                   saca_vars, roi_vars, tile_vars, mm_vars>>

\* the cells that may be visited next: the first unwritten one in sequential
\* mode, any unwritten one in parallel mode
NextCells ==
    LET left == (0..(Len(mask_out) - 1)) \ mask_written
    IN  IF UnwrapOr(mask_parallel, FALSE) THEN left
        ELSE {k \in left : \A j \in left : k <= j}

\* one cell of the mask is decided
MaskCell(k) ==
    /\ pc = "mask_loop"
    /\ k \in NextCells
    /\ mask_out' = Put(mask_out, k,
                       Significant(At(mask_data.elems, k),
                                   ZCrit(UnwrapOr(mask_alpha, DefaultAlpha),
                                         Size(mask_data.shape))))
    /\ mask_written' = mask_written \cup {k}
    /\ UNCHANGED <<pc, mask_args, mask_ret, sort_vars, tau_vars, zw_vars, kd_vars,
                   saca_vars, roi_vars, tile_vars, mm_vars>>

\* every cell is decided: line 365
MaskReturn ==
    /\ pc = "mask_loop"
    /\ NextCells = {}
    /\ mask_ret' = Ok(Array("bool", mask_data.shape, mask_out))
    /\ pc' = "mask_done"
    /\ UNCHANGED <<mask_args, mask_out, mask_written, sort_vars, tau_vars, zw_vars, kd_vars,
                   saca_vars, roi_vars, tile_vars, mm_vars>>

NextMask ==
    \/ MaskTypeError
    \/ MaskStart
    \/ \E k \in 0..3 : MaskCell(k)
    \/ MaskReturn

SpecMask == InitMask /\ [][NextMask]_vars

\* ------------------------------------------------------ pearson_roi_coloc
MaxRois == 2

RoiValues == {0, 1}
RoiShapes == {<<2>>, <<3>>}

\* the point clouds of the callers: each row is one coordinate
RoiClouds ==
    {<<>>,
     <<<<0>>, <<1>>>>,
     <<<<0>>, <<1>>, <<2>>>>,
     <<<<1>>, <<0>>, <<1>>>>,
     <<<<0, 1>>>>}

\* the ROI maps: point clouds under some of the labels
RoiMaps == UNION {[labels -> RoiClouds] : labels \in SUBSET (1..MaxRois)}

\* ndarray indexing: the position has one index per axis, each inside it
InBounds(arr, pos) ==
    /\ Len(pos) = Len(arr.shape)
    /\ \A a \in 1..Len(pos) : pos[a] < arr.shape[a]

\* the row-major offset of a position
RECURSIVE Offset(_, _, _)
Offset(shape, pos, a) ==
    IF a > Len(shape) THEN 0
    ELSE pos[a] * Product(shape, a + 1) + Offset(shape, pos, a + 1)

Index(arr, pos) == At(arr.elems, Offset(arr.shape, pos, 1))

RECURSIVE SumProd(_, _, _)
SumProd(a, b, i) == IF i > Len(a) THEN 0 ELSE a[i] * b[i] + SumProd(a, b, i + 1)

\* pearson.rs line 95
ZeroVariance == [tag |-> "Err", kind |-> "InvalidGeneric"]

\* pearson.rs lines 42-100 in exact arithmetic: with n times the sums of
\* lines 67-93, numer / sqrt(sq_a * sq_b) = cov / sqrt(var_a * var_b)
PearsonCorrelation(a, b) ==
    LET n == Len(a)
        cov == n * SumProd(a, b, 1) - SumSeq(a, 1) * SumSeq(b, 1)
        var_a == n * SumProd(a, a, 1) - SumSeq(a, 1) * SumSeq(a, 1)
        var_b == n * SumProd(b, b, 1) - SumSeq(b, 1) * SumSeq(b, 1)
    IN  IF n # Len(b) THEN MismatchedArrayLengths(n, Len(b))
        ELSE IF var_a * var_b = 0 THEN ZeroVariance
        ELSE Ok(Quotient(cov, Sqrt(var_a * var_b)))

\* an index outside an array unwinds out of the call
Panic == [tag |-> "Panic"]

\* roi_coloc.rs lines 51-69: the values of both arrays at the ROI's
\* coordinates, then their correlation
PerRoiPearsonCorr(a, b, v) ==
    IF \E i \in 1..Len(v) : ~InBounds(a, v[i]) \/ ~InBounds(b, v[i])
    THEN Panic
    ELSE PearsonCorrelation([i \in 1..Len(v) |-> Index(a, v[i])],
                            [i \in 1..Len(v) |-> Index(b, v[i])])

InitRoi ==
    /\ pc = "roi_loop"
    /\ \E sa \in RoiShapes, sb \in RoiShapes :
          /\ roi_a \in Arrays("f64", sa, RoiValues)
          /\ roi_b \in Arrays("f64", sb, RoiValues)
    /\ roi_rois \in RoiMaps
    /\ roi_parallel \in BOOLEAN
    /\ roi_todo = DOMAIN roi_rois
    /\ roi_acc = <<>>
    /\ roi_ret = NoRet
    /\ SortIdle
    /\ TauIdle
    /\ ZeroWeightIdle
    /\ KdIdle
    /\ SacaIdle
    /\ MaskIdle
    /\ TileIdle
    /\ MinMaxIdle

\* lines 70-78: one ROI of the map is visited, in the map's order or on any
\* thread; the first error ends the collection
RoiVisit(k) ==
    /\ pc = "roi_loop"
    /\ k \in roi_todo
    /\ \E r \in {PerRoiPearsonCorr(roi_a, roi_b, roi_rois[k])} :
          IF r.tag = "Ok"
          THEN /\ roi_acc' = [l \in DOMAIN roi_acc \cup {k} |->
                                 IF l = k THEN r.value ELSE roi_acc[l]]
               /\ roi_todo' = roi_todo \ {k}
               /\ UNCHANGED <<pc, roi_ret>>
          ELSE /\ roi_ret' = r
               /\ pc' = "roi_done"
               /\ UNCHANGED <<roi_todo, roi_acc>>
    /\ UNCHANGED <<roi_args, sort_vars, tau_vars, zw_vars, kd_vars,
                   saca_vars, mask_vars, tile_vars, mm_vars>>

\* lines 73, 77: every ROI gave a coefficient
RoiCollect ==
    /\ pc = "roi_loop"
    /\ roi_todo = {}
    /\ roi_ret' = Ok(roi_acc)
    /\ pc' = "roi_done"
    /\ UNCHANGED <<roi_args, roi_todo, roi_acc, sort_vars, tau_vars, zw_vars, kd_vars,
                   saca_vars, mask_vars, tile_vars, mm_vars>>

NextRoi ==
    \/ \E k \in 1..MaxRois : RoiVisit(k)
    \/ RoiCollect

SpecRoi == InitRoi /\ [][NextRoi]_vars

\* ------------------------------------------------- div_tile / div_untile
MaxAxis == 3

\* the divisors the callers pass
Divs == 0..3

\* the shapes of the arrays: one and two axes of every length up to
\* MaxAxis, and a cube
TileShapes ==
    {<<x>> : x \in 0..MaxAxis}
        \cup {<<x, y>> : x \in 0..MaxAxis, y \in 0..MaxAxis}
        \cup {<<2, 2, 2>>}

\* the array whose element at linear index k is k
Ramp(shape) == Array("f64", shape, [k \in 1..Size(shape) |-> k - 1])

\* the arrays tiled: the ramp of every shape, and every array of up to
\* 4 elements over two values
TileArrays ==
    {Ramp(sh) : sh \in TileShapes}
        \cup UNION {Arrays("f64", sh, {0, 1}) : sh \in {t \in TileShapes : Size(t) <= 4}}

\* lines 35-40, 123-128
InvalidParameterValueEqual(value) ==
    [tag |-> "Err", kind |-> "InvalidParameterValueEqual", value |-> value]

\* lines 46-52, 142-147
InvalidAxisValueNotAMultipleOf(axis_idx, multiple) ==
    [tag |-> "Err", kind |-> "InvalidAxisValueNotAMultipleOf",
     axis_idx |-> axis_idx, multiple |-> multiple]

\* lines 119-121
InvalidParameterEmptyArray == [tag |-> "Err", kind |-> "InvalidParameterEmptyArray"]

\* lines 155-159
InvalidArrayLength(expected, got) ==
    [tag |-> "Err", kind |-> "InvalidArrayLength", expected |-> expected, got |-> got]

\* is_multiple_of
IsMultipleOf(v, div) == v % div = 0

\* the axes whose length is not a multiple of div, by 0-based index
BadAxes(shape, div) == {i \in 0..(Len(shape) - 1) : ~IsMultipleOf(At(shape, i), div)}

\* the first of them
FirstBadAxis(shape, div) ==
    CHOOSE i \in BadAxes(shape, div) : \A j \in BadAxes(shape, div) : i <= j

\* lines 204-215: the fold pushes (acc, acc + inc) and carries acc + inc
RECURSIVE StartStopFold(_, _, _, _)
StartStopFold(div, inc, acc, arr) ==
    IF Len(arr) = div THEN arr
    ELSE StartStopFold(div, inc, acc + inc, Append(arr, <<acc, acc + inc>>))

GetDivStartStopPositions(div, axis_len) == StartStopFold(div, axis_len \div div, 0, <<>>)

\* lines 55-58, 149-152
TilePositions(div, shape) ==
    [a \in 1..Len(shape) |-> GetDivStartStopPositions(div, shape[a])]

\* the product of the position counts of the axes from axis i on
RECURSIVE LenProduct(_, _)
LenProduct(tp, i) == IF i > Len(tp) THEN 1 ELSE Len(tp[i]) * LenProduct(tp, i + 1)

\* lines 59, 153
NTiles(tp) == LenProduct(tp, 1)

\* Stride counting axis a itself
StrideInclusive(tp, a) == LenProduct(tp, a + 1)

\* lines 67, 176: the axes after the 0-based axis a
Stride(tp, a) == LenProduct(tp, a + 2)

\* a view of an array: where it starts on each axis and its shape
View(start, shape) == [start |-> start, shape |-> shape]

\* slice_axis_inplace on the 0-based axis a
SliceAxis(view, a, start, end) ==
    View(Put(view.start, a, view.start[a + 1] + start), Put(view.shape, a, end - start))

\* lines 64-76, 174-185: the axes of tile t are sliced one after the other
RECURSIVE SliceAxes(_, _, _, _)
SliceAxes(tp, a, remaining, view) ==
    IF a = Len(tp) THEN view
    ELSE LET stride == Stride(tp, a)
             tile_pos == remaining \div stride
         IN  SliceAxes(tp, a + 1, remaining % stride,
                       SliceAxis(view, a, At(tp[a + 1], tile_pos)[1],
                                 At(tp[a + 1], tile_pos)[2]))

\* the view of the whole array
WholeView(shape) == View([a \in 1..Len(shape) |-> 0], shape)

\* the linear index in the array of the j-th element of a view
ViewOffset(shape, view, j) ==
    LET p == Unravel(view.shape, j)
    IN  Offset(shape, [a \in 1..Len(shape) |-> view.start[a] + p[a]], 1)

\* the elements seen through a view, in its own row-major order
ViewElems(arr, view) ==
    [j \in 1..Size(view.shape) |-> At(arr.elems, ViewOffset(arr.shape, view, j - 1))]

\* a tile of the stack: the view and what is seen through it
Tile(arr, view) == [start |-> view.start, shape |-> view.shape, elems |-> ViewElems(arr, view)]

\* line 106: assign copies the tile over the view of the assembled array
Assign(elems, shape, view, tile) ==
    LET target == [j \in 1..Size(view.shape) |-> ViewOffset(shape, view, j - 1)]
    IN  [k \in 1..Len(elems) |->
            IF \E j \in DOMAIN target : target[j] = k - 1
            THEN tile.elems[CHOOSE j \in DOMAIN target : target[j] = k - 1]
            ELSE elems[k]]

\* the stack without its last tile
Front(stack) == SubSeq(stack, 1, Len(stack) - 1)

InitTile ==
    /\ pc = "tile_call"
    /\ tile_data \in TileArrays
    /\ tile_div \in Divs
    /\ tile_stack = <<>>
    /\ tile_ret = NoRet
    /\ untile_stack = <<>>
    /\ untile_div = 0
    /\ untile_shape = <<>>
    /\ untile_arr = <<>>
    /\ untile_t = 0
    /\ untile_ret = NoRet
    /\ SortIdle
    /\ TauIdle
    /\ ZeroWeightIdle
    /\ KdIdle
    /\ SacaIdle
    /\ MaskIdle
    /\ RoiIdle
    /\ MinMaxIdle

\* lines 35-53: the checks of div_tile
TileError ==
    /\ pc = "tile_call"
    /\ \/ /\ tile_div = 0
          /\ tile_ret' = InvalidParameterValueEqual(0)
       \/ /\ tile_div # 0
          /\ BadAxes(tile_data.shape, tile_div) # {}
          /\ LET i == FirstBadAxis(tile_data.shape, tile_div)
             IN  tile_ret' = InvalidAxisValueNotAMultipleOf(i, At(tile_data.shape, i))
    /\ pc' = "tile_done"
    /\ UNCHANGED <<tile_args, tile_stack, untile_args, untile_arr, untile_t, untile_ret,
                   sort_vars, tau_vars, zw_vars, kd_vars,
                   saca_vars, mask_vars, roi_vars, mm_vars>>

\* lines 54-60: the checks pass and the stack is allocated
TileStart ==
    /\ pc = "tile_call"
    /\ tile_div # 0
    /\ BadAxes(tile_data.shape, tile_div) = {}
    /\ pc' = "tile_loop"
    /\ UNCHANGED <<tile_vars, sort_vars, tau_vars, zw_vars, kd_vars,
                   saca_vars, mask_vars, roi_vars, mm_vars>>

\* lines 61-76: tile t is sliced out of the array and pushed
TilePush ==
    /\ pc = "tile_loop"
    /\ \E tp \in {TilePositions(tile_div, tile_data.shape)} :
          /\ Len(tile_stack) < NTiles(tp)
          /\ tile_stack' =
                Append(tile_stack,
                       Tile(tile_data,
                            SliceAxes(tp, 0, Len(tile_stack), WholeView(tile_data.shape))))
    /\ UNCHANGED <<pc, tile_args, tile_ret, untile_args, untile_arr, untile_t, untile_ret,
                   sort_vars, tau_vars, zw_vars, kd_vars,
                   saca_vars, mask_vars, roi_vars, mm_vars>>

\* line 78
TileReturn ==
    /\ pc = "tile_loop"
    /\ Len(tile_stack) = NTiles(TilePositions(tile_div, tile_data.shape))
    /\ tile_ret' = Ok(tile_stack)
    /\ pc' = "untile_call"
    /\ UNCHANGED <<tile_args, tile_stack, untile_args, untile_arr, untile_t, untile_ret,
                   sort_vars, tau_vars, zw_vars, kd_vars,
                   saca_vars, mask_vars, roi_vars, mm_vars>>

\* lines 118-169: the checks of div_untile, in their order
UntileCheck(stack, div, shape) ==
    IF stack = <<>> THEN InvalidParameterEmptyArray
    ELSE IF div = 0 THEN InvalidParameterValueEqual(0)
    ELSE IF Len(shape) # Len(stack[1].shape)
         THEN MismatchedArrayLengths(Len(stack[1].shape), Len(shape))
    ELSE IF BadAxes(shape, div) # {}
         THEN InvalidAxisValueNotAMultipleOf(FirstBadAxis(shape, div), div)
    ELSE IF NTiles(TilePositions(div, shape)) # Len(stack)
         THEN InvalidArrayLength(NTiles(TilePositions(div, shape)), Len(stack))
    ELSE IF [a \in 1..Len(shape) |-> shape[a] \div div] # stack[1].shape
         THEN MismatchedArrayShapes([a \in 1..Len(shape) |-> shape[a] \div div],
                                    stack[1].shape)
    ELSE Ok(shape)

\* div_untile is called with the stack of div_tile, whole or without its
\* last tile, and some divisor and shape; a check fails
UntileError(stack, div, shape) ==
    /\ pc = "untile_call"
    /\ untile_stack' = stack
    /\ untile_div' = div
    /\ untile_shape' = shape
    /\ UntileCheck(stack, div, shape).tag = "Err"
    /\ untile_ret' = UntileCheck(stack, div, shape)
    /\ pc' = "untile_done"
    /\ UNCHANGED <<tile_args, tile_stack, tile_ret, untile_arr, untile_t,
                   sort_vars, tau_vars, zw_vars, kd_vars,
                   saca_vars, mask_vars, roi_vars, mm_vars>>

\* line 170: the checks pass and the array is allocated with the default
\* element
UntileStart(stack, div, shape) ==
    /\ pc = "untile_call"
    /\ untile_stack' = stack
    /\ untile_div' = div
    /\ untile_shape' = shape
    /\ UntileCheck(stack, div, shape).tag = "Ok"
    /\ untile_arr' = Filled(Size(shape), 0)
    /\ untile_t' = 0
    /\ pc' = "untile_loop"
    /\ UNCHANGED <<tile_args, tile_stack, tile_ret, untile_ret,
                   sort_vars, tau_vars, zw_vars, kd_vars,
                   saca_vars, mask_vars, roi_vars, mm_vars>>

\* lines 171-187: tile t is copied to its place
UntileAssign ==
    /\ pc = "untile_loop"
    /\ untile_t < Len(untile_stack)
    /\ \E tp \in {TilePositions(untile_div, untile_shape)} :
          untile_arr' = Assign(untile_arr, untile_shape,
                               SliceAxes(tp, 0, untile_t, WholeView(untile_shape)),
                               untile_stack[untile_t + 1])
    /\ untile_t' = untile_t + 1
    /\ UNCHANGED <<pc, tile_args, tile_stack, tile_ret, untile_args, untile_ret,
                   sort_vars, tau_vars, zw_vars, kd_vars,
                   saca_vars, mask_vars, roi_vars, mm_vars>>

\* line 189
UntileReturn ==
    /\ pc = "untile_loop"
    /\ untile_t = Len(untile_stack)
    /\ untile_ret' = Ok(Array("f64", untile_shape, untile_arr))
    /\ pc' = "untile_done"
    /\ UNCHANGED <<tile_args, tile_stack, tile_ret, untile_args, untile_arr, untile_t,
                   sort_vars, tau_vars, zw_vars, kd_vars,
                   saca_vars, mask_vars, roi_vars, mm_vars>>

NextTile ==
    \/ TileError
    \/ TileStart
    \/ TilePush
    \/ TileReturn
    \/ \E stack \in {tile_stack, Front(tile_stack)}, div \in Divs, shape \in TileShapes :
          UntileError(stack, div, shape)
    \/ \E stack \in {tile_stack, Front(tile_stack)}, div \in Divs, shape \in TileShapes :
          UntileStart(stack, div, shape)
    \/ UntileAssign
    \/ UntileReturn

SpecTile == InitTile /\ [][NextTile]_vars

\* ---------------------------------------------------------------- min_max
MaxElems == 4

\* An element is a number or NaN; only numbers compare.
Float(v) == [nan |-> FALSE, v |-> v]
NaNFloat == [nan |-> TRUE, v |-> 0]

Floats == {Float(0), Float(1), Float(2), NaNFloat}

\* PartialOrd: x < y
Less(x, y) == ~x.nan /\ ~y.nan /\ x.v < y.v

\* lines 126, 145: the first element on both sides
Identity(av) == <<av, av>>

\* lines 127-132, 145-150: v < acc.0, v > acc.1
FoldOp(acc, v) ==
    <<IF Less(v, acc[1]) THEN v ELSE acc[1],
      IF Less(acc[2], v) THEN v ELSE acc[2]>>

\* ReduceOp keeping the smaller of the two maxima
ReduceOpSmallerMax(acc, v) ==
    <<IF Less(v[1], acc[1]) THEN v[1] ELSE acc[1],
      IF Less(v[2], acc[2]) THEN v[2] ELSE acc[2]>>

\* lines 133-138: v.0 < acc.0, v.1 > acc.1
ReduceOp(acc, v) ==
    <<IF Less(v[1], acc[1]) THEN v[1] ELSE acc[1],
      IF Less(acc[2], v[2]) THEN v[2] ELSE acc[2]>>

\* the chunks of an array cut after the positions in cuts, as pairs of the
\* first and the last index
Chunks(n, cuts) ==
    LET starts == {1} \cup {c + 1 : c \in cuts}
        EndOf(b) == IF \E c \in cuts : c >= b
                    THEN CHOOSE c \in cuts : c >= b /\ \A d \in cuts : d >= b => c <= d
                    ELSE n
        Nth(k) == CHOOSE b \in starts : Cardinality({x \in starts : x < b}) = k - 1
    IN  [k \in 1..Cardinality(starts) |-> <<Nth(k), EndOf(Nth(k))>>]

\* lines 119-120, 140-141
EmptyArray == [tag |-> "Err", kind |-> "InvalidParameterEmptyArray"]

InitMinMax ==
    /\ pc = "mm_call"
    /\ mm_data \in UNION {[1..n -> Floats] : n \in 0..MaxElems}
    /\ mm_parallel \in BOOLEAN
    /\ mm_chunks = <<>>
    /\ mm_accs = <<>>
    /\ mm_next = <<>>
    /\ mm_live = {}
    /\ mm_ret = NoRet
    /\ SortIdle
    /\ TauIdle
    /\ ZeroWeightIdle
    /\ KdIdle
    /\ SacaIdle
    /\ MaskIdle
    /\ RoiIdle
    /\ TileIdle

\* lines 140, 152: data.first() is None
MinMaxEmpty ==
    /\ pc = "mm_call"
    /\ mm_data = <<>>
    /\ mm_ret' = EmptyArray
    /\ pc' = "mm_done"
    /\ UNCHANGED <<mm_args, mm_chunks, mm_accs, mm_next, mm_live,
                   sort_vars, tau_vars, zw_vars, kd_vars,
                   saca_vars, mask_vars, roi_vars, tile_vars>>

\* lines 124-126, 144-145: the array is split, in parallel mode anywhere and
\* in sequential mode nowhere, and every chunk starts from the identity
MinMaxSplit(cuts) ==
    /\ pc = "mm_call"
    /\ mm_data # <<>>
    /\ cuts \subseteq 1..(Len(mm_data) - 1)
    /\ mm_parallel \/ cuts = {}
    /\ \E ch \in {Chunks(Len(mm_data), cuts)} :
          /\ mm_chunks' = ch
          /\ mm_accs' = [k \in DOMAIN ch |-> Identity(mm_data[1])]
          /\ mm_next' = [k \in DOMAIN ch |-> ch[k][1]]
          /\ mm_live' = DOMAIN ch
    /\ pc' = "mm_fold"
    /\ UNCHANGED <<mm_args, mm_ret,
                   sort_vars, tau_vars, zw_vars, kd_vars,
                   saca_vars, mask_vars, roi_vars, tile_vars>>

\* chunk k has folded all its elements
Folded(k) == mm_next[k] > mm_chunks[k][2]

\* lines 127-132, 145-150: chunk k folds its next element
MinMaxFold(k) ==
    /\ pc = "mm_fold"
    /\ k \in DOMAIN mm_accs
    /\ ~Folded(k)
    /\ mm_accs' = [mm_accs EXCEPT ![k] = FoldOp(mm_accs[k], mm_data[mm_next[k]])]
    /\ mm_next' = [mm_next EXCEPT ![k] = mm_next[k] + 1]
    /\ UNCHANGED <<pc, mm_args, mm_chunks, mm_live, mm_ret,
                   sort_vars, tau_vars, zw_vars, kd_vars,
                   saca_vars, mask_vars, roi_vars, tile_vars>>

\* lines 133-138: the results of two chunks are combined, in either order;
\* the combined result takes the place of the first
MinMaxReduce(i, j, flip) ==
    /\ pc = "mm_fold"
    /\ mm_parallel
    /\ i \in mm_live /\ j \in mm_live /\ i < j
    /\ Folded(i) /\ Folded(j)
    /\ mm_accs' = [mm_accs EXCEPT ![i] =
                      IF flip THEN ReduceOp(mm_accs[j], mm_accs[i])
                      ELSE ReduceOp(mm_accs[i], mm_accs[j])]
    /\ mm_live' = mm_live \ {j}
    /\ UNCHANGED <<pc, mm_args, mm_chunks, mm_next, mm_ret,
                   sort_vars, tau_vars, zw_vars, kd_vars,
                   saca_vars, mask_vars, roi_vars, tile_vars>>

\* lines 125-126, 133-138: a result is combined with a fresh identity, on
\* either side
MinMaxReduceIdentity(i, left) ==
    /\ pc = "mm_fold"
    /\ mm_parallel
    /\ i \in mm_live
    /\ Folded(i)
    /\ mm_accs' = [mm_accs EXCEPT ![i] =
                      IF left THEN ReduceOp(Identity(mm_data[1]), mm_accs[i])
                      ELSE ReduceOp(mm_accs[i], Identity(mm_data[1]))]
    /\ UNCHANGED <<pc, mm_args, mm_chunks, mm_next, mm_live, mm_ret,
                   sort_vars, tau_vars, zw_vars, kd_vars,
                   saca_vars, mask_vars, roi_vars, tile_vars>>

\* lines 142, 154: one result is left
MinMaxReturn ==
    /\ pc = "mm_fold"
    /\ \E k \in mm_live :
          /\ mm_live = {k}
          /\ Folded(k)
          /\ mm_ret' = Ok(mm_accs[k])
    /\ pc' = "mm_done"
    /\ UNCHANGED <<mm_args, mm_chunks, mm_accs, mm_next, mm_live,
                   sort_vars, tau_vars, zw_vars, kd_vars,
                   saca_vars, mask_vars, roi_vars, tile_vars>>

NextMinMax ==
    \/ MinMaxEmpty
    \/ \E cuts \in SUBSET (1..MaxElems) : MinMaxSplit(cuts)
    \/ \E k \in 1..MaxElems : MinMaxFold(k)
    \/ \E i, j \in 1..MaxElems, flip \in BOOLEAN : MinMaxReduce(i, j, flip)
    \/ \E i \in 1..MaxElems, left \in BOOLEAN : MinMaxReduceIdentity(i, left)
    \/ MinMaxReturn

SpecMinMax == InitMinMax /\ [][NextMinMax]_vars

\* ------------------------------ weighted_kendall_tau_b with a zero weight
MaxBase == 2

\* the values of the first call: two levels, so that the extra observation
\* can fall below, between, on and above them
BaseObservations == {1, 3}

\* s with v inserted after its first p elements
InsertAt(s, p, v) == SubSeq(s, 1, p) \o <<v>> \o SubSeq(s, p + 1, Len(s))

\* the caller holds two datasets and non-negative weights of one length
InitZeroWeight ==
    /\ pc = "zw_call"
    /\ \E n \in 0..MaxBase :
          /\ zw_a \in [1..n -> BaseObservations]
          /\ zw_b \in [1..n -> BaseObservations]
          /\ zw_w \in [1..n -> TauWeights]
    /\ zw_ret = NoRet
    /\ zw_base = NoRet
    /\ SortIdle
    /\ TauIdle
    /\ SacaIdle
    /\ MaskIdle
    /\ RoiIdle
    /\ TileIdle
    /\ MinMaxIdle
    /\ KdIdle

\* kendall_tau.rs lines 43-114: one call of weighted_kendall_tau_b
ZeroWeightCall ==
    /\ pc \in {"zw_call", "zw_call_again"}
    /\ zw_ret' = WeightedKendallTauB(zw_a, zw_b, zw_w)
    /\ pc' = IF pc = "zw_call" THEN "zw_called" ELSE "zw_done"
    /\ UNCHANGED <<zw_a, zw_b, zw_w, zw_base, sort_vars, tau_vars, saca_vars, mask_vars,
                   roi_vars, tile_vars, mm_vars, kd_vars>>

\* the caller keeps the first result and adds the observation (x, y) with
\* weight 0 after the first p observations
ZeroWeightInsert(x, y, p) ==
    /\ pc = "zw_called"
    /\ zw_base' = [a |-> zw_a, b |-> zw_b, w |-> zw_w, ret |-> zw_ret]
    /\ zw_a' = InsertAt(zw_a, p, x)
    /\ zw_b' = InsertAt(zw_b, p, y)
    /\ zw_w' = InsertAt(zw_w, p, 0)
    /\ zw_ret' = NoRet
    /\ pc' = "zw_call_again"
    /\ UNCHANGED <<sort_vars, tau_vars, saca_vars, mask_vars, roi_vars, tile_vars,
                   mm_vars, kd_vars>>

NextZeroWeight ==
    \/ ZeroWeightCall
    \/ \E x \in Observations, y \in Observations, p \in 0..Len(zw_a) :
          ZeroWeightInsert(x, y, p)

SpecZeroWeight == InitZeroWeight /\ [][NextZeroWeight]_vars

\* ----------------------------------------------------------------- KDTree
MaxPoints == 4

\* the coordinates of the points and of the queries, and the radii
Coords == {-1, 0, 1}
Radii == {0, 1, 2}

\* the points of a cloud of shape (p, 2)
KdPoints == Coords \X Coords

\* kd_tree.rs lines 156-168: Node::new
Node(split_axis, point_index, left, right) ==
    [split_axis |-> split_axis, point_index |-> point_index,
     left |-> left, right |-> right]

\* lines 86-87, 116: self.cloud[[a, k]]
Coord(cloud, a, k) == At(At(cloud, a), k)

\* lines 85-89: the place of index a in a sequence already sorted by the
\* split coordinate; the sort is stable: a goes behind its equals
RECURSIVE InsertByAxis(_, _, _, _)
InsertByAxis(cloud, split_axis, sorted, a) ==
    IF sorted = <<>> THEN <<a>>
    ELSE IF Coord(cloud, Head(sorted), split_axis) <= Coord(cloud, a, split_axis)
    THEN <<Head(sorted)>> \o InsertByAxis(cloud, split_axis, Tail(sorted), a)
    ELSE <<a>> \o sorted

\* lines 83-89: inds_sorted, the indices sorted by the split coordinate
RECURSIVE SortByAxis(_, _, _)
SortByAxis(cloud, split_axis, indices) ==
    IF indices = <<>> THEN <<>>
    ELSE InsertByAxis(cloud, split_axis,
                      SortByAxis(cloud, split_axis, Front(indices)),
                      indices[Len(indices)])

\* lines 77-101: the node vector after the call and the returned index
RECURSIVE RecursiveBuild(_, _, _, _)
RecursiveBuild(cloud, nodes, indices, depth) ==
    IF indices = <<>> THEN [nodes |-> nodes, ret |-> None]
    ELSE LET n_dims == Len(cloud[1])
             split_axis == depth % n_dims
             inds_sorted == SortByAxis(cloud, split_axis, indices)
             median == Len(inds_sorted) \div 2
             point_index == At(inds_sorted, median)
             left == RecursiveBuild(cloud, nodes, SubSeq(inds_sorted, 1, median), depth + 1)
             right == RecursiveBuild(cloud, left.nodes,
                                     SubSeq(inds_sorted, median + 2, Len(inds_sorted)),
                                     depth + 1)
             node_index == Len(right.nodes)
         IN  [nodes |-> Append(right.nodes,
                               Node(split_axis, point_index, left.ret, right.ret)),
              ret |-> Some(node_index)]

\* lines 48-50: the tree of build
Build(cloud) ==
    RecursiveBuild(cloud, <<>>, [i \in 1..Len(cloud) |-> i - 1], 0)

\* lines 120-127: the squared distance over the first n_dims coordinates
RECURSIVE DistSq(_, _, _)
DistSq(node_point, query, n_dims) ==
    IF n_dims = 0 THEN 0
    ELSE LET d == At(node_point, n_dims - 1) - At(query, n_dims - 1)
         IN  DistSq(node_point, query, n_dims - 1) + d * d

\* FarNeeded that leaves out the far side at distance radius
FarNeededStrict(diff, radius_sq) == diff * diff < radius_sq

\* line 146: the far side can hold a point within the radius
FarNeeded(diff, radius_sq) == diff * diff <= radius_sq

\* lines 104-151: results after the search of the subtree at node_index
RECURSIVE RecursiveSearch(_, _, _, _, _, _, _)
RecursiveSearch(cloud, nodes, node_index, n_dims, query, radius_sq, results) ==
    LET node == At(nodes, node_index)
        node_point == At(cloud, node.point_index)
        node_dist_sq == DistSq(node_point, query, n_dims)
        found == IF node_dist_sq <= radius_sq
                 THEN Append(results, node.point_index)
                 ELSE results
        ax == node.split_axis
        diff == At(query, ax) - At(node_point, ax)
        near == IF diff <= 0 THEN node.left ELSE node.right
        far == IF diff <= 0 THEN node.right ELSE node.left
        after_near == IF near.some
                      THEN RecursiveSearch(cloud, nodes, near.val, n_dims, query,
                                           radius_sq, found)
                      ELSE found
    IN  IF FarNeeded(diff, radius_sq) /\ far.some
        THEN RecursiveSearch(cloud, nodes, far.val, n_dims, query, radius_sq, after_near)
        ELSE after_near

\* lines 60-70: the indices search selects from the cloud
Search(cloud, nodes, root, query, radius) ==
    IF root.some
    THEN RecursiveSearch(cloud, nodes, root.val, Len(query), query, radius * radius, <<>>)
    ELSE <<>>

\* a caller holds a point cloud of shape (p, 2)
InitKd ==
    /\ pc = "kd_new"
    /\ kd_cloud \in SeqsUpTo(KdPoints, MaxPoints)
    /\ kd_nodes = <<>>
    /\ kd_root = None
    /\ kd_query = <<>>
    /\ kd_radius = 0
    /\ kd_results = <<>>
    /\ SortIdle
    /\ TauIdle
    /\ SacaIdle
    /\ MaskIdle
    /\ RoiIdle
    /\ TileIdle
    /\ MinMaxIdle
    /\ ZeroWeightIdle

\* lines 38-53: KDTree::build
KdBuild ==
    /\ pc = "kd_new"
    /\ \E t \in {Build(kd_cloud)} :
          /\ kd_nodes' = t.nodes
          /\ kd_root' = t.ret
    /\ pc' = "kd_built"
    /\ UNCHANGED <<kd_cloud, kd_query, kd_radius, kd_results, sort_vars, tau_vars,
                   saca_vars, mask_vars, roi_vars, tile_vars, mm_vars, zw_vars>>

\* lines 56-74: KDTree::search on the built tree
KdSearch(query, radius) ==
    /\ pc = "kd_built"
    /\ kd_query' = query
    /\ kd_radius' = radius
    /\ kd_results' = Search(kd_cloud, kd_nodes, kd_root, query, radius)
    /\ pc' = "kd_searched"
    /\ UNCHANGED <<kd_tree, sort_vars, tau_vars, saca_vars, mask_vars, roi_vars,
                   tile_vars, mm_vars, zw_vars>>

NextKd ==
    \/ KdBuild
    \/ \E query \in KdPoints, radius \in Radii : KdSearch(query, radius)

SpecKd == InitKd /\ [][NextKd]_vars

\* ------------------------------------------------------------ properties
IsNonDecreasing(d) == \A i \in 1..(Len(d) - 1) : d[i] <= d[i + 1]

\* the bag of (data[i], weights[i]) pairs of two same-length slices
PairBag(d, w) ==
    LET pairs == {<<d[i], w[i]>> : i \in 1..Len(d)}
    IN  [p \in pairs |-> Cardinality({i \in 1..Len(d) : <<d[i], w[i]>> = p})]

RECURSIVE SumPairs(_, _, _, _)
SumPairs(d, w, i, j) ==
    IF i > Len(d) THEN 0
    ELSE IF j > Len(d) THEN SumPairs(d, w, i + 1, i + 2)
    ELSE (IF d[i] > d[j] THEN w[i] * w[j] ELSE 0) + SumPairs(d, w, i, j + 1)

\* sum of w[i] * w[j] over the positions i < j with d[i] > d[j]
WeightedInversions(d, w) == SumPairs(d, w, 1, 2)

\* the classical number of inversions of d
Inversions(d) ==
    Cardinality({p \in (1..Len(d)) \X (1..Len(d)) : p[1] < p[2] /\ d[p[1]] > d[p[2]]})

SameLength == Len(arg_data) = Len(arg_weights)

ReturnedOk == pc = "done" /\ ret.tag = "Ok"

\* C1: after weighted_merge_sort_mut returns Ok, the caller's data slice is
\* non-decreasing and the (data[i], weights[i]) pairs are a permutation of
\* the input pairs.
C1_SortedSamePairs ==
    ReturnedOk =>
        /\ IsNonDecreasing(data)
        /\ Len(data) = Len(arg_data)
        /\ Len(weights) = Len(arg_weights)
        /\ PairBag(data, weights) = PairBag(arg_data, arg_weights)

C1_Witness ==
    /\ ReturnedOk
    /\ Len(arg_data) = MaxLen
    /\ ~IsNonDecreasing(arg_data)
    /\ arg_weights # weights
    /\ data # arg_data

\* C2: the value returned by weighted_merge_sort_mut is the weighted
\* inversion count of the input, the sum of weights[i] * weights[j] over the
\* input positions i < j with data[i] > data[j]; with every weight 1 it is
\* the classical number of inversions.
C2_WeightedInversionCount ==
    ReturnedOk =>
        /\ ret.value = WeightedInversions(arg_data, arg_weights)
        /\ (\A i \in 1..Len(arg_weights) : arg_weights[i] = 1)
              => ret.value = Inversions(arg_data)

C2_Witness ==
    /\ ReturnedOk
    /\ ret.value > Inversions(arg_data)
    /\ Inversions(arg_data) >= 2
    /\ \E i \in 1..Len(arg_weights) : arg_weights[i] = 1

\* C3: when data.len() # weights.len(), weighted_merge_sort_mut returns
\* Err(MismatchedArrayLengths) carrying both lengths, and neither slice is
\* modified at any point of the call.
C3_MismatchIsEagerError ==
    ~SameLength =>
        /\ data = arg_data
        /\ weights = arg_weights
        /\ pc \in {"call", "done"}
        /\ pc = "done" =>
              ret = [tag |-> "Err", kind |-> "MismatchedArrayLengths",
                     a_arr_len |-> Len(arg_data), b_arr_len |-> Len(arg_weights)]

C3_Witness ==
    /\ pc = "done"
    /\ Len(arg_data) = 5
    /\ Len(arg_weights) = 4
    /\ ~IsNonDecreasing(arg_data)
    /\ ret.tag = "Err"

\* C4: for every length n >= 2 the sorted data and the matching weights are
\* in the caller's slices when the call returns, whether the number of
\* passes is even or odd, and the copy back is performed exactly when the
\* number of passes is odd.
C4_ResultInCallerSlices ==
    /\ [](pc \in {"return", "done"} /\ SameLength /\ Len(arg_data) >= 2 =>
            /\ IsNonDecreasing(data)
            /\ PairBag(data, weights) = PairBag(arg_data, arg_weights)
            /\ (Passes % 2 = 1 => data = data_buf /\ weights = weights_buf))
    /\ [][pc = "loop" /\ pc' # "loop" => (pc' = "copy" <=> Passes % 2 = 1)]_vars
    /\ [][pc = "copy" => pc' = "return" /\ data' = data_buf /\ weights' = weights_buf]_vars

C4_Witness ==
    /\ pc = "done"
    /\ Len(arg_data) = 5
    /\ Passes = 3
    /\ data # arg_data
    /\ weights # arg_weights

C4_WitnessEven ==
    /\ pc = "done"
    /\ Len(arg_data) = 4
    /\ Passes = 2
    /\ data # arg_data

\* C5: for same-length inputs of length 0 or 1, weighted_merge_sort_mut
\* returns Ok(0.0), performs no merge pass and leaves data and weights
\* unchanged.
C5_ShortInputs ==
    SameLength /\ Len(arg_data) <= 1 =>
        /\ step = 1
        /\ ~data_in_buffer
        /\ data = arg_data
        /\ weights = arg_weights
        /\ pc # "copy"
        /\ pc = "done" => ret = Ok(0)

C5_Witness ==
    /\ pc = "done"
    /\ Len(arg_data) = 1
    /\ Len(arg_weights) = 1
    /\ ret.tag = "Ok"

\* ------------------------------------------- properties of the correlation
TauComputed ==
    /\ pc = "tau_done"
    /\ Len(data_a) = Len(data_b)
    /\ Len(data_a) = Len(tau_weights)
    /\ Len(data_a) >= 2

Positions == 1..Len(data_a)

TieFree(d) == \A i, j \in 1..Len(d) : i # j => d[i] # d[j]

UniformWeights == \A i \in 1..Len(tau_weights) : tau_weights[i] = 1

SameOrder(a, b) == \A i, j \in 1..Len(a) : a[i] < a[j] <=> b[i] < b[j]

ReverseOrder(a, b) == \A i, j \in 1..Len(a) : a[i] < a[j] <=> b[i] > b[j]

\* the pairs of observations that a and b order in opposite ways
DiscordantPairs(a, b) ==
    {p \in (1..Len(a)) \X (1..Len(a)) :
        /\ p[1] < p[2]
        /\ \/ a[p[1]] < a[p[2]] /\ b[p[1]] > b[p[2]]
           \/ a[p[1]] > a[p[2]] /\ b[p[1]] < b[p[2]]}

\* the exact value of x / y for integers x and y > 0
Ratio(x, y) == Quotient(x, [nan |-> FALSE, s |-> y, t |-> 1])

\* C6: for a tie-free a of length >= 2 and uniform weights 1.0,
\* weighted_kendall_tau_b returns 1.0 when b is in the same relative order as
\* a and -1.0 when b is in exactly the reverse order.
C6_PerfectCorrelation ==
    TauComputed /\ UniformWeights /\ TieFree(data_a) =>
        /\ SameOrder(data_a, data_b) => tau_ret = Ok(One)
        /\ ReverseOrder(data_a, data_b) => tau_ret = Ok(MinusOne)

\* C7: for tie-free sequences of length n and uniform weights 1.0 in which
\* b's order differs from a's by exactly one adjacent transposition,
\* weighted_kendall_tau_b returns 1 - 4 / (n (n - 1)).
C7_OneDisagreement ==
    LET n == Len(data_a)
    IN  /\ TauComputed
        /\ UniformWeights
        /\ TieFree(data_a)
        /\ TieFree(data_b)
        /\ Cardinality(DiscordantPairs(data_a, data_b)) = 1
        => tau_ret = Ok(Ratio(n * (n - 1) - 4, n * (n - 1)))

Reorderings(n) == {p \in [1..n -> 1..n] : \A i, j \in 1..n : p[i] = p[j] => i = j}

Reordered(d, p) == [i \in 1..Len(d) |-> d[p[i]]]

\* C8: applying one and the same reordering to the observations of a, b and
\* weights leaves the value returned by weighted_kendall_tau_b unchanged,
\* with or without ties in a.
C8_OrderInvariance ==
    TauComputed =>
        \A p \in Reorderings(Len(data_a)) :
            WeightedKendallTauB(Reordered(data_a, p), Reordered(data_b, p),
                                Reordered(tau_weights, p)) = tau_ret

AllTied(d) == \A i, j \in 1..Len(d) : d[i] = d[j]

\* C9: when every value of a is tied and every value of b is tied, with
\* uniform weights, weighted_kendall_tau_b returns Ok(NaN).
C9_AllTiesNaN ==
    TauComputed /\ UniformWeights /\ AllTied(data_a) /\ AllTied(data_b) =>
        tau_ret = Ok(NaN)

RECURSIVE TiedPairSum(_, _, _, _)
TiedPairSum(d, w, i, j) ==
    IF i > Len(d) THEN 0
    ELSE IF j > Len(d) THEN TiedPairSum(d, w, i + 1, i + 2)
    ELSE (IF d[i] = d[j] THEN w[i] * w[j] ELSE 0) + TiedPairSum(d, w, i, j + 1)

\* n1, n2 of the formula: twice the weight products of the pairs tied in d
TieCorrection(d, w) == 2 * TiedPairSum(d, w, 1, 2)

\* n0 of the formula: (sum w)^2 - sum w^2
TotalPairMass(w) == SumSeq(w, 1) * SumSeq(w, 1) - SumSqr(w, 1)

\* (n0 - n1)(n0 - n2), whose square root is the denominator
UnderRoot ==
    (TotalPairMass(tau_weights) - TieCorrection(data_a, tau_weights))
  * (TotalPairMass(tau_weights) - TieCorrection(data_b, tau_weights))

\* C10: whenever the denominator sqrt((n0 - n1)(n0 - n2)) is zero or NaN,
\* as when one variable is constant or all weights but one are zero,
\* weighted_kendall_tau_b returns Ok(0.0).
C10_DegenerateDenominator ==
    TauComputed /\ UnderRoot <= 0 =>
        /\ tau_ret = Ok(Zero)
        /\ denom.nan <=> UnderRoot < 0
        /\ ~denom.nan => denom.s = 0

\* one variable constant, the other not, all weights positive
C10_Witness ==
    /\ TauComputed
    /\ AllTied(data_b)
    /\ ~AllTied(data_a)
    /\ \A i \in Positions : tau_weights[i] > 0
    /\ numer # 0
    /\ tau_ret = Ok(Zero)

\* a denominator that is NaN
C10_WitnessNaN == TauComputed /\ denom.nan /\ tau_ret = Ok(Zero)

\* all weights but one are zero
C10_WitnessOneWeight ==
    /\ TauComputed
    /\ Cardinality({i \in Positions : tau_weights[i] # 0}) = 1
    /\ TieFree(data_a)
    /\ TieFree(data_b)
    /\ tau_ret = Ok(Zero)

\* ------------------------------------- properties of the early returns
LengthsDiffer == Len(data_a) # Len(data_b) \/ Len(data_a) # Len(tau_weights)

\* nothing has been ranked, sorted or summed
NothingComputed ==
    /\ a_ranks = <<>>
    /\ b_ranks = <<>>
    /\ a_tie_corr = 0
    /\ b_tie_corr = 0
    /\ b_sorted = <<>>
    /\ w_sorted = <<>>
    /\ swaps = 0
    /\ total_w_pairs = 0
    /\ numer = 0
    /\ SortIdle

\* C11: weighted_kendall_tau_b returns Err(MismatchedArrayLengths) whenever
\* a.len() # b.len() or a.len() # weights.len(); the check comes before every
\* other step, so mismatched inputs with fewer than 2 observations in a give
\* Err and not Ok(0.0), and nothing is ranked or sorted.
C11_MismatchBeforeAll ==
    pc = "tau_done" /\ LengthsDiffer =>
        /\ tau_ret.tag = "Err"
        /\ tau_ret.kind = "MismatchedArrayLengths"
        /\ tau_ret.a_arr_len = Len(data_a)
        /\ NothingComputed

\* a is empty and b has one observation
C11_Witness ==
    /\ pc = "tau_done"
    /\ Len(data_a) = 0
    /\ Len(data_b) = 1
    /\ tau_ret.tag = "Err"

\* a and b agree, only the weights differ in length
C11_WitnessWeights ==
    /\ pc = "tau_done"
    /\ Len(data_a) = 2
    /\ Len(data_b) = 2
    /\ Len(tau_weights) = 1
    /\ tau_ret.tag = "Err"

\* C12: for same-length inputs of length 0 or 1, weighted_kendall_tau_b
\* returns Ok(0.0) without ranking or sorting anything.
C12_TooFewObservations ==
    pc = "tau_done" /\ ~LengthsDiffer /\ Len(data_a) < 2 =>
        /\ tau_ret = Ok(Zero)
        /\ NothingComputed

C12_Witness ==
    /\ pc = "tau_done"
    /\ Len(data_a) = 1
    /\ Len(data_b) = 1
    /\ Len(tau_weights) = 1
    /\ tau_weights[1] # 0
    /\ tau_ret = Ok(Zero)

C12_WitnessEmpty ==
    /\ pc = "tau_done"
    /\ Len(data_a) = 0
    /\ Len(data_b) = 0
    /\ Len(tau_weights) = 0
    /\ tau_ret = Ok(Zero)

\* ------------------------------------------------ properties of the clamp
\* -1 <= v <= 1 for a real v = num / (den * sqrt(rad))
InUnitInterval(v) == ~v.nan /\ v.num * v.num <= v.den * v.den * v.rad

\* numer * numer compared with the product under the root: the quotient
\* numer / denom is at or beyond 1 in absolute value
QuotientBeyondOne ==
    numer * numer >= Radicand(total_w_pairs, a_tie_corr, b_tie_corr)

\* C13: for same-length inputs with non-negative weights the Ok value of
\* weighted_kendall_tau_b lies in [-1.0, 1.0], and a quotient at or beyond
\* +1 / -1 is returned as exactly 1.0 / -1.0.
C13_ClampedToUnitInterval ==
    pc = "tau_done" /\ ~LengthsDiffer =>
        /\ tau_ret.tag = "Ok"
        /\ InUnitInterval(tau_ret.value)
        /\ (TauComputed /\ ~denom.nan /\ denom.s # 0 /\ QuotientBeyondOne) =>
              /\ numer > 0 => tau_ret = Ok(One)
              /\ numer < 0 => tau_ret = Ok(MinusOne)

\* a quotient strictly above 1 came back as 1.0
C13_Witness ==
    /\ TauComputed
    /\ ~denom.nan
    /\ denom.s # 0
    /\ numer > 0
    /\ numer * numer > Radicand(total_w_pairs, a_tie_corr, b_tie_corr)
    /\ tau_ret = Ok(One)

\* a quotient strictly below -1 came back as -1.0
C13_WitnessBelow ==
    /\ TauComputed
    /\ ~denom.nan
    /\ denom.s # 0
    /\ numer < 0
    /\ numer * numer > Radicand(total_w_pairs, a_tie_corr, b_tie_corr)
    /\ tau_ret = Ok(MinusOne)

\* ------------------------------------------- properties of saca_2d / saca_3d
\* both images reach the core
SacaCoreCalled ==
    /\ pc \in {"saca_call", "saca_loop", "saca_done"}
    /\ Supported(saca_a, saca_fn)
    /\ Extracts(saca_b, saca_fn, saca_a.dtype)

SacaParallel == UnwrapOr(saca_parallel, FALSE)

\* C14: saca_2d / saca_3d called with images of different shapes returns a
\* shape-mismatch Err; the shapes are validated before the per-pixel loop,
\* parallel or sequential, is started, so no output cell is ever computed or
\* returned.
C14_ShapeMismatchNoOutput ==
    SacaCoreCalled /\ saca_a.shape # saca_b.shape =>
        /\ pc \in {"saca_call", "saca_done"}
        /\ saca_owner = <<>>
        /\ saca_out = <<>>
        /\ saca_log = <<>>
        /\ pc = "saca_done" =>
              /\ saca_ret.tag = "Err"
              /\ saca_ret.error.kind = "MismatchedArrayShapes"
              /\ saca_ret.error.a_shape = saca_a.shape
              /\ saca_ret.error.b_shape = saca_b.shape

C14_Witness ==
    /\ pc = "saca_done"
    /\ saca_fn = "saca_2d"
    /\ saca_a.shape = <<2, 2>>
    /\ saca_b.shape = <<1, 2>>
    /\ SacaParallel
    /\ saca_ret.tag = "Err"
    /\ saca_ret.exception = "PyValueError"

C14_Witness3D ==
    /\ pc = "saca_done"
    /\ saca_fn = "saca_3d"
    /\ saca_a.shape # saca_b.shape
    /\ ~SacaParallel
    /\ saca_ret.tag = "Err"

Cells == 0..(Len(saca_log) - 1)

\* C15: in parallel mode, for every partition of the pixels over the workers
\* and every interleaving of the workers, each output cell is written exactly
\* once and only by the worker that owns it, all cells have been written
\* when the call returns, and the source images are never written.
C15_DisjointWrites ==
    /\ [](pc \in {"saca_loop", "saca_done"} /\ SacaParallel =>
            /\ \A k \in Cells :
                  \/ At(saca_log, k) = <<>> /\ pc = "saca_loop"
                  \/ At(saca_log, k) = <<At(saca_owner, k)>>
            /\ (pc = "saca_done" /\ saca_ret.tag = "Ok") =>
                  /\ Len(saca_log) = Size(saca_a.shape)
                  /\ Len(saca_ret.value.elems) = Size(saca_a.shape))
    /\ [][saca_a' = saca_a /\ saca_b' = saca_b]_vars

\* four pixels shared between two workers, all written
C15_Witness ==
    /\ pc = "saca_done"
    /\ SacaParallel
    /\ saca_ret.tag = "Ok"
    /\ Len(saca_log) = 4
    /\ \E j, k \in Cells : At(saca_owner, j) # At(saca_owner, k)
    /\ \A k \in Cells : Len(At(saca_log, k)) = 1

\* the second worker has written a cell while the first has written none
C15_WitnessInterleaved ==
    /\ pc = "saca_loop"
    /\ SacaParallel
    /\ saca_next[1] = 0
    /\ Len(Share(saca_owner, 1)) > 0
    /\ saca_next[2] > 0

\* C16: for the same images and thresholds, parallel = true and parallel =
\* false return identical z-score fields of the shape of the inputs, whatever
\* the order in which the parallel workers complete.
C16_ParallelEqualsSequential ==
    pc = "saca_done" /\ saca_ret.tag = "Ok" =>
        /\ saca_ret.value.shape = saca_a.shape
        /\ saca_ret.value = SequentialField(saca_a, saca_b, saca_ta, saca_tb)

\* a parallel run over two workers that returned a field with a nonzero score
C16_Witness ==
    /\ pc = "saca_done"
    /\ SacaParallel
    /\ saca_ret.tag = "Ok"
    /\ \E j, k \in Cells : At(saca_owner, j) # At(saca_owner, k)
    /\ \E j, k \in Cells : At(saca_ret.value.elems, j) # At(saca_ret.value.elems, k)

\* a sequential run that returned a field with a nonzero score
C16_WitnessSequential ==
    /\ pc = "saca_done"
    /\ ~SacaParallel
    /\ saca_ret.tag = "Ok"
    /\ \E k \in Cells : At(saca_ret.value.elems, k) # Zero

\* --------------------------------- properties of saca_significance_mask
MaskReturned == pc = "mask_done" /\ mask_ret.tag = "Ok"

FieldCells == 0..(Len(mask_data.elems) - 1)

\* the significance level of the call, in hundredths
AlphaUsed == IF mask_alpha.some THEN mask_alpha.val ELSE 5

\* C17: saca_significance_mask returns a boolean array of the shape of the
\* z-score field in which a cell is true exactly when |z| exceeds the
\* Bonferroni-corrected critical value for alpha (default 0.05) and the cell
\* count N; NaN cells are false, and in a field with a single cell at z = 10
\* among zeros only that cell is true, in parallel and sequential mode.
C17_SignificanceMask ==
    MaskReturned =>
        /\ mask_ret.value.shape = mask_data.shape
        /\ Len(mask_ret.value.elems) = Len(mask_data.elems)
        /\ \A k \in FieldCells :
              /\ At(mask_ret.value.elems, k) \in BOOLEAN
              /\ At(mask_ret.value.elems, k) <=>
                    /\ ~At(mask_data.elems, k).nan
                    /\ Abs(At(mask_data.elems, k).micro)
                          > UpperQuantile(AlphaUsed, 2 * Len(mask_data.elems))
              /\ At(mask_data.elems, k).nan => ~At(mask_ret.value.elems, k)
        /\ (\A k \in FieldCells : At(mask_data.elems, k).micro \in {0, 10000000}) =>
              \A k \in FieldCells :
                  At(mask_ret.value.elems, k) <=> At(mask_data.elems, k).micro = 10000000

\* one cell at z = 10 among three zeros, default alpha, parallel mode
C17_Witness ==
    /\ MaskReturned
    /\ UnwrapOr(mask_parallel, FALSE)
    /\ ~mask_alpha.some
    /\ mask_data.shape = <<2, 2>>
    /\ Cardinality({k \in FieldCells : At(mask_data.elems, k) = Score(10000000)}) = 1
    /\ Cardinality({k \in FieldCells : At(mask_data.elems, k) = Score(0)}) = 3
    /\ Cardinality({k \in FieldCells : At(mask_ret.value.elems, k)}) = 1

\* a NaN cell and a cell at -2.3 that the correction for three cells rejects
C17_WitnessCorrected ==
    /\ MaskReturned
    /\ ~UnwrapOr(mask_parallel, FALSE)
    /\ mask_data.elems = <<NaNScore, Score(-2300000), Score(10000000)>>
    /\ mask_ret.value.elems = <<FALSE, FALSE, TRUE>>

\* the same score is significant when it stands alone
C17_WitnessAlone ==
    /\ MaskReturned
    /\ mask_data.elems = <<Score(-2300000)>>
    /\ mask_ret.value.elems = <<TRUE>>

\* --------------------------------------- properties of pearson_roi_coloc
\* C18: pearson_roi_coloc returns Err(ImgalError) whenever data_a and data_b
\* do not have the same number of elements, for every ROI map, in parallel
\* and in sequential mode.
C18_ErrOnDifferentSizes ==
    pc = "roi_done" /\ Size(roi_a.shape) # Size(roi_b.shape) =>
        roi_ret.tag = "Err"

\* ------------------------------------- properties of div_tile / div_untile
\* every axis length of the array is a multiple of div > 0
Tileable ==
    /\ tile_div > 0
    /\ \A a \in 1..Len(tile_data.shape) : tile_data.shape[a] % tile_div = 0

RECURSIVE Pow(_, _)
Pow(b, e) == IF e = 0 THEN 1 ELSE b * Pow(b, e - 1)

\* where tile t lies when the tiles are laid out in row-major order: the
\* digits of t in base div, most significant first, in units of one tile
ExpectedStart(t) ==
    LET n == Len(tile_data.shape)
    IN  [a \in 1..n |->
            ((t \div Pow(tile_div, n - a)) % tile_div) * (tile_data.shape[a] \div tile_div)]

ExpectedShape == [a \in 1..Len(tile_data.shape) |-> tile_data.shape[a] \div tile_div]

\* the linear indices of the array's elements inside a tile
TileCells(tile) ==
    {k \in 0..(Size(tile_data.shape) - 1) :
        \A a \in 1..Len(tile_data.shape) :
            /\ tile.start[a] <= Unravel(tile_data.shape, k)[a]
            /\ Unravel(tile_data.shape, k)[a] < tile.start[a] + tile.shape[a]}

\* the element of a tile that shows the array's element k
Shown(tile, k) ==
    LET p == Unravel(tile_data.shape, k)
    IN  At(tile.elems, Offset(tile.shape, [a \in 1..Len(p) |-> p[a] - tile.start[a]], 1))

\* div_untile was called with the stack of div_tile, the same divisor and
\* the shape of the array
RoundTrip ==
    /\ pc = "untile_done"
    /\ untile_stack = tile_stack
    /\ untile_div = tile_div
    /\ untile_shape = tile_data.shape

\* C19: for every array whose axis lengths are all multiples of div > 0,
\* div_tile returns div^n tiles in row-major order of their positions, the
\* tiles are pairwise disjoint and cover the array, and div_untile of the
\* tiles with the same div and the array's shape returns Ok of the array.
C19_TilingRoundTrip ==
    /\ tile_ret.tag = "Err" => ~Tileable
    /\ tile_ret.tag = "Ok" =>
          LET tiles == tile_ret.value
          IN  /\ Tileable
              /\ Len(tiles) = Pow(tile_div, Len(tile_data.shape))
              /\ \A t \in 1..Len(tiles) :
                    /\ tiles[t].start = ExpectedStart(t - 1)
                    /\ tiles[t].shape = ExpectedShape
                    /\ Len(tiles[t].elems) = Cardinality(TileCells(tiles[t]))
                    /\ \A k \in TileCells(tiles[t]) :
                          Shown(tiles[t], k) = At(tile_data.elems, k)
              /\ \A t, u \in 1..Len(tiles) :
                    t # u => TileCells(tiles[t]) \cap TileCells(tiles[u]) = {}
              /\ UNION {TileCells(tiles[t]) : t \in 1..Len(tiles)}
                    = 0..(Size(tile_data.shape) - 1)
    /\ RoundTrip => untile_ret = Ok(tile_data)

\* a 3 x 3 ramp cut in 9 tiles and put together again
C19_Witness ==
    /\ RoundTrip
    /\ tile_data = Ramp(<<3, 3>>)
    /\ tile_div = 3
    /\ Len(tile_stack) = 9
    /\ untile_ret = Ok(tile_data)

\* the cube cut in 8 tiles, the sixth of which shows element 5
C19_WitnessCube ==
    /\ RoundTrip
    /\ tile_data = Ramp(<<2, 2, 2>>)
    /\ tile_div = 2
    /\ Len(tile_stack) = 8
    /\ tile_stack[6] = [start |-> <<1, 0, 1>>, shape |-> <<1, 1, 1>>, elems |-> <<5>>]
    /\ untile_ret = Ok(tile_data)

\* tiles of more than one element: 2 x 2 over two values cut in two rows
C19_WitnessRows ==
    /\ RoundTrip
    /\ tile_data.shape = <<2, 2>>
    /\ tile_data.elems = <<0, 1, 1, 1>>
    /\ tile_div = 1
    /\ untile_ret = Ok(tile_data)

\* ------------------------------------------------- properties of min_max
MinMaxReturned == pc = "mm_done" /\ mm_data # <<>>

\* every element is a number
Comparable == \A i \in DOMAIN mm_data : ~mm_data[i].nan

\* the elements of the array
Elements == {mm_data[i] : i \in DOMAIN mm_data}

\* a smallest and a largest element
Smallest == CHOOSE x \in Elements : \A y \in Elements : x.v <= y.v
Largest == CHOOSE x \in Elements : \A y \in Elements : y.v <= x.v

\* the single left-to-right pass over the whole array
RECURSIVE WholeFold(_, _)
WholeFold(acc, i) ==
    IF i > Len(mm_data) THEN acc ELSE WholeFold(FoldOp(acc, mm_data[i]), i + 1)

\* C20: for every non-empty array min_max(data, true) and
\* min_max(data, false) return the same pair, the minimum and the maximum
\* of the array, whatever the chunks of the parallel fold (each seeded with
\* the first element) and the order in which their results are combined.
C20_ParallelMinMax ==
    MinMaxReturned =>
        /\ mm_ret = Ok(WholeFold(<<mm_data[1], mm_data[1]>>, 1))
        /\ Comparable => mm_ret = Ok(<<Smallest, Largest>>)

\* four elements in three chunks, the extremes away from the first element
C20_Witness ==
    /\ MinMaxReturned
    /\ mm_parallel
    /\ mm_data = <<Float(1), Float(2), Float(0), Float(1)>>
    /\ mm_chunks = <<<<1, 1>>, <<2, 3>>, <<4, 4>>>>
    /\ mm_ret = Ok(<<Float(0), Float(2)>>)

\* the same array in sequential mode
C20_WitnessSequential ==
    /\ MinMaxReturned
    /\ ~mm_parallel
    /\ mm_data = <<Float(1), Float(2), Float(0), Float(1)>>
    /\ mm_ret = Ok(<<Float(0), Float(2)>>)

\* a NaN in a chunk of its own is skipped in both modes
C20_WitnessNaN ==
    /\ MinMaxReturned
    /\ mm_parallel
    /\ mm_data = <<Float(1), NaNFloat, Float(2)>>
    /\ mm_chunks = <<<<1, 1>>, <<2, 2>>, <<3, 3>>>>
    /\ mm_ret = Ok(<<Float(1), Float(2)>>)

\* ------------------------------------- properties of the ranking step
\* the weight products of the pairs i < j from position i, j on that a and b
\* order in opposite ways
RECURSIVE DiscordantMass(_, _, _, _, _)
DiscordantMass(a, b, w, i, j) ==
    IF i > Len(a) THEN 0
    ELSE IF j > Len(a) THEN DiscordantMass(a, b, w, i + 1, i + 2)
    ELSE (IF <<i, j>> \in DiscordantPairs(a, b) THEN w[i] * w[j] ELSE 0)
         + DiscordantMass(a, b, w, i, j + 1)

\* C21: the weighted inversion count obtained by sorting b's ranks in
\* a-rank order equals the weighted mass of the discordant pairs, the sum of
\* weights[i] * weights[j] over the pairs that a and b order in opposite
\* ways; pairs tied in a or tied in b contribute nothing, whatever the
\* input order of the observations.
C21_SwapsAreDiscordantMass ==
    TauComputed => swaps = DiscordantMass(data_a, data_b, tau_weights, 1, 2)

\* rank_with_weights has returned
Ranked == pc = "rank_done"

\* the values of d below the one at position i, and those equal to it
Below(d, i) == {k \in 1..Len(d) : d[k] < d[i]}
TiedWith(d, i) == {k \in 1..Len(d) : d[k] = d[i]}

\* twice the average of the 1-based ranks that the group of d[i] occupies,
\* the ranks |Below| + 1 .. |Below| + |TiedWith|
TwiceAverageRank(d, i) == 2 * Cardinality(Below(d, i)) + Cardinality(TiedWith(d, i)) + 1

\* C22: rank_with_weights gives every member of a group of tied values the
\* average of the 1-based ranks the group occupies (two values tied for
\* ranks 1 and 2 both receive 1.5), and untied values their ordinal rank.
C22_AverageRanks ==
    Ranked => \A i \in Positions : 2 * a_ranks[i] = TwiceAverageRank(data_a, i)

\* C23: the tie correction returned by rank_with_weights is twice the sum,
\* over every group of equal values, of weights[k] * weights[l] over the
\* unordered pairs k # l of the group; it is 0 for a variable without ties
\* and n0 = (sum w)^2 - sum w^2 for a constant variable.
C23_TieCorrection ==
    Ranked =>
        /\ a_tie_corr = TieCorrection(data_a, tau_weights)
        /\ TieFree(data_a) => a_tie_corr = 0
        /\ AllTied(data_a) => a_tie_corr = TotalPairMass(tau_weights)

\* two tie groups with unequal weights
C23_Witness ==
    /\ Ranked
    /\ data_a = <<1, 2, 1, 2>>
    /\ tau_weights = <<1, 2, 2, 1>>
    /\ a_tie_corr = 8

\* no ties
C23_WitnessTieFree ==
    /\ Ranked
    /\ TieFree(data_a)
    /\ Len(data_a) = 3
    /\ \A i \in Positions : tau_weights[i] > 0
    /\ a_tie_corr = 0

\* a constant variable
C23_WitnessConstant ==
    /\ Ranked
    /\ data_a = <<2, 2, 2>>
    /\ tau_weights = <<1, 2, 2>>
    /\ a_tie_corr = 16

\* C28: weighted_kendall_tau_b is symmetric in its two variables:
\* weighted_kendall_tau_b(a, b, weights) = weighted_kendall_tau_b(b, a,
\* weights) for every same-length input, with ties in only one variable too.
C28_Symmetric ==
    TauComputed => WeightedKendallTauB(data_b, data_a, tau_weights) = tau_ret

\* C29: the integer ranks of rank_with_weights are order-isomorphic to the
\* data: ranks[i] < ranks[j] exactly when data[i] < data[j], ranks[i] =
\* ranks[j] exactly when data[i] = data[j], and every rank lies in 1..n.
C29_RanksOrderIsomorphic ==
    Ranked =>
        /\ Len(a_ranks) = Len(data_a)
        /\ \A i, j \in Positions :
              /\ a_ranks[i] < a_ranks[j] <=> data_a[i] < data_a[j]
              /\ a_ranks[i] = a_ranks[j] <=> data_a[i] = data_a[j]
        /\ \A i \in Positions : a_ranks[i] \in 1..Len(data_a)

\* two tie groups of two, out of input order
C29_Witness ==
    /\ Ranked
    /\ data_a = <<3, 1, 3, 1>>
    /\ a_ranks = <<3, 1, 3, 1>>

\* a tie group of three below a single value
C29_WitnessGroup ==
    /\ Ranked
    /\ data_a = <<2, 2, 3, 2>>
    /\ a_ranks = <<2, 2, 4, 2>>

\* ------------------------------------------- properties of one merge pass
\* a pass of the while loop has just ended; step is already doubled
PassEnded == pc = "loop" /\ step > 1

\* the destination and the source of the pass that just ended
PassDest == IF data_in_buffer THEN data_buf ELSE data
PassDestWeights == IF data_in_buffer THEN weights_buf ELSE weights
PassSource == IF data_in_buffer THEN data ELSE data_buf
PassSourceWeights == IF data_in_buffer THEN weights ELSE weights_buf

\* the aligned blocks [m * 2 * width, min((m + 1) * 2 * width, n)) of the pass
\* that just ended, as records of 0-based bounds; step is 2 * width
PassBlocks ==
    {[lo |-> m * step,
      hi |-> IF (m + 1) * step < Len(data) THEN (m + 1) * step ELSE Len(data),
      right |-> m * step + step \div 2] : m \in 0..((Len(data) - 1) \div step)}

\* elements lo .. hi - 1 (0-based) of d
Block(d, b) == SubSeq(d, b.lo + 1, b.hi)

\* C24: at the end of the pass with run width step the destination holds all
\* n elements (every index written exactly once, k = n), every aligned block
\* of 2 * step elements is non-decreasing and a permutation of the same block
\* of the source, and a trailing block with no right run is copied unchanged.
C24_PassInvariant ==
    PassEnded =>
        /\ pass_log.k = Len(data)
        /\ Len(pass_log.writes) = Len(data)
        /\ \A i \in 0..(Len(data) - 1) :
              Cardinality({j \in DOMAIN pass_log.writes : pass_log.writes[j] = i}) = 1
        /\ \A b \in PassBlocks :
              /\ IsNonDecreasing(Block(PassDest, b))
              /\ PairBag(Block(PassDest, b), Block(PassDestWeights, b))
                    = PairBag(Block(PassSource, b), Block(PassSourceWeights, b))
              /\ b.right >= Len(data) =>
                    /\ Block(PassDest, b) = Block(PassSource, b)
                    /\ Block(PassDestWeights, b) = Block(PassSourceWeights, b)

\* five elements after the pass of width 2: one block merged out of order,
\* the fifth element copied by the tail loop
C24_Witness ==
    /\ PassEnded
    /\ step = 4
    /\ Len(data) = 5
    /\ Block(PassDest, [lo |-> 0, hi |-> 4]) # Block(PassSource, [lo |-> 0, hi |-> 4])
    /\ pass_log.writes = <<0, 1, 2, 3, 4>>

\* three elements after the pass of width 1: the trailing block has a left
\* run and an empty right run
C24_WitnessEmptyRightRun ==
    /\ PassEnded
    /\ step = 2
    /\ Len(data) = 3
    /\ PassSource = <<2, 1, 0>>
    /\ PassDest = <<1, 2, 0>>

\* the slices a pass indexes, all of the length of the input
Slices == {"data_from", "weights_from", "data_to", "weights_to", "cum_weights_buf"}

\* C25: weighted_merge_sort_mut indexes no slice outside [0, n) and returns
\* Ok for every same-length input: every access to data_from, data_to,
\* weights_from, weights_to and cum_weights_buf is in bounds, for n = 0, 1,
\* powers of two and other lengths.
C25_AccessesInBounds ==
    /\ \A a \in pass_log.acc : a[1] \in Slices /\ a[2] \in 0..(Len(data) - 1)
    /\ (pc = "done" /\ SameLength) => ret.tag = "Ok"

\* five elements, the pass of width 2: cum_weights_buf is read at right - 1
\* and at l - 1 with l > 0, and the last index of every slice is touched
C25_Witness ==
    /\ PassEnded
    /\ step = 4
    /\ Len(data) = 5
    /\ {<<"cum_weights_buf", 1>>, <<"cum_weights_buf", 0>>} \subseteq pass_log.acc
    /\ {<<"data_from", 4>>, <<"data_to", 4>>, <<"weights_from", 4>>} \subseteq pass_log.acc

\* a power of two: the last pass over four elements
C25_WitnessPowerOfTwo ==
    /\ PassEnded
    /\ step = 4
    /\ Len(data) = 4
    /\ <<"cum_weights_buf", 1>> \in pass_log.acc
    /\ <<"data_from", 3>> \in pass_log.acc

\* the empty input: no pass, no access, Ok
C25_WitnessEmpty ==
    /\ ReturnedOk
    /\ arg_data = <<>>
    /\ pass_log = NoLog

\* the weights of the elements of d equal to v, in the order of d
RECURSIVE WeightsOf(_, _, _)
WeightsOf(d, w, v) ==
    IF d = <<>> THEN <<>>
    ELSE (IF Head(d) = v THEN <<Head(w)>> ELSE <<>>) \o WeightsOf(Tail(d), Tail(w), v)

\* the sum of w[i] * w[j] over the positions i < j with d[i] = d[j]
RECURSIVE EqualPairMass(_, _, _, _)
EqualPairMass(d, w, i, j) ==
    IF i > Len(d) THEN 0
    ELSE IF j > Len(d) THEN EqualPairMass(d, w, i + 1, i + 2)
    ELSE (IF d[i] = d[j] THEN w[i] * w[j] ELSE 0) + EqualPairMass(d, w, i, j + 1)

\* the sum of w[i] * w[j] over the positions i < j with d[i] >= d[j]
RECURSIVE NotLessPairMass(_, _, _, _)
NotLessPairMass(d, w, i, j) ==
    IF i > Len(d) THEN 0
    ELSE IF j > Len(d) THEN NotLessPairMass(d, w, i + 1, i + 2)
    ELSE (IF d[i] >= d[j] THEN w[i] * w[j] ELSE 0) + NotLessPairMass(d, w, i, j + 1)

\* C26: the sort is stable: the weights of the elements of one data value
\* appear in the output in their input order, and the pairs of equal values
\* add nothing to the inversion count.
C26_Stable ==
    ReturnedOk =>
        /\ \A v \in Values :
              WeightsOf(data, weights, v) = WeightsOf(arg_data, arg_weights, v)
        /\ ret.value = NotLessPairMass(arg_data, arg_weights, 1, 2)
                          - EqualPairMass(arg_data, arg_weights, 1, 2)

\* two groups of equal values with distinct weights, interleaved and out of
\* order
C26_Witness ==
    /\ ReturnedOk
    /\ arg_data = <<1, 0, 1, 0, 1>>
    /\ arg_weights = <<1, 2, 2, 1, 1>>
    /\ data = <<0, 0, 1, 1, 1>>
    /\ weights = <<2, 1, 1, 2, 1>>
    /\ ret.value = 5

\* all values equal: nothing moves and nothing is counted
C26_WitnessAllEqual ==
    /\ ReturnedOk
    /\ arg_data = <<1, 1, 1>>
    /\ arg_weights = <<2, 1, 2>>
    /\ weights = <<2, 1, 2>>
    /\ ret.value = 0

\* ----------------------------- properties of observations of weight 0
\* C27: an observation of weight 0 has no influence on
\* weighted_kendall_tau_b: the call with an extra observation (x, y) of
\* weight 0 at any position returns what the call without it returned.
C27_ZeroWeightNeutral ==
    pc = "zw_done" => zw_ret = zw_base.ret

\* a discordant pair with an extra observation tied with one of them in a
\* and between them in b, placed in the middle
C27_Witness ==
    /\ pc = "zw_done"
    /\ zw_a = <<1, 3, 3>>
    /\ zw_b = <<3, 2, 1>>
    /\ zw_w = <<1, 0, 2>>
    /\ zw_base.a = <<1, 3>>
    /\ zw_ret.tag = "Ok"
    /\ zw_ret.value # Zero

\* ----------------------------------------------------- properties of KDTree
\* the indices of the points within the radius of the query, by a scan
BruteForce(cloud, query, radius) ==
    {i \in 0..(Len(cloud) - 1) :
        DistSq(At(cloud, i), query, Len(query)) <= radius * radius}

\* C30: build creates exactly one node per point, and search returns
\* exactly the points whose squared distance to the query is <= radius^2,
\* each once, as a brute-force scan does; points that share the split
\* coordinate with a node are not lost to the pruning of the far subtree.
C30_SearchIsBruteForce ==
    /\ pc \in {"kd_built", "kd_searched"} =>
          /\ Len(kd_nodes) = Len(kd_cloud)
          /\ \A i \in 0..(Len(kd_cloud) - 1) :
                Cardinality({j \in DOMAIN kd_nodes : kd_nodes[j].point_index = i}) = 1
    /\ pc = "kd_searched" =>
          /\ {kd_results[j] : j \in DOMAIN kd_results}
                = BruteForce(kd_cloud, kd_query, kd_radius)
          /\ \A j, k \in DOMAIN kd_results : kd_results[j] = kd_results[k] => j = k

\* four points, three of them on the split coordinate of the root, the
\* query at distance exactly the radius from the root's split plane
C30_Witness ==
    /\ pc = "kd_searched"
    /\ kd_cloud = << <<0, -1>>, <<0, 0>>, <<0, 1>>, <<1, 0>> >>
    /\ kd_query = <<-1, 0>>
    /\ kd_radius = 1
    /\ {kd_results[j] : j \in DOMAIN kd_results} = {1}

\* the root is point 1; the query lies on its split plane, so that the right
\* subtree is the far side: point 3 there shares the split coordinate and is
\* found, points 0 and 2 on the near side are outside the radius
C30_WitnessFarSide ==
    /\ pc = "kd_searched"
    /\ kd_cloud = << <<-1, -1>>, <<1, 1>>, <<0, 1>>, <<1, -1>> >>
    /\ kd_query = <<1, 0>>
    /\ kd_radius = 1
    /\ At(kd_nodes, kd_root.val).point_index = 1
    /\ {kd_results[j] : j \in DOMAIN kd_results} = {1, 3}

\* the empty cloud: no node, no root, no result
C30_WitnessEmpty ==
    /\ pc = "kd_searched"
    /\ kd_cloud = <<>>
    /\ kd_root = None
    /\ kd_results = <<>>

====
